---- MODULE Spec2Model ----
(***************************************************************************)
(* EtherNet/IP session client (EnipClient), CIP explicit messaging         *)
(* (CIPClient, CIPPath), the Promass device driver (PromassDevice) and the *)
(* PromassProMagComponent logic block of                                   *)
(* examples/smart_instrumentation/component.py.                            *)
(*                                                                         *)
(* Byte strings are sequences of naturals in 0..255.  One request/response *)
(* exchange with the peer is an input record x = [kind, status, data]:     *)
(*   kind = "reply"          a complete frame with that status and payload *)
(*   kind = "send_fail"      sock.sendall raises OSError                   *)
(*   kind = "timeout"        sock.recv raises socket.timeout (an OSError)  *)
(*   kind = "short_header"   peer closes before 24 header bytes arrived    *)
(*   kind = "short_payload"  peer closes before `length` payload bytes     *)
(* Operators that model methods take the client state c (a record) and     *)
(* return [c |-> state after, exc |-> exception kind or "none", ret |-> …].*)
(***************************************************************************)
EXTENDS Integers, Sequences, FiniteSets, TLC

\* ------------------------------------------------------------------ bounds
MaxByte == 1
MaxRegLen == 5
MaxCount == 1
MaxConnErr == 1
MaxClock == 1
MaxRetry == 3
MaxPayload == 2
MaxItems == 2
MaxAddWords == 1
MaxCipTail == 3
MaxRecv == 3
MaxWrapRetries == 2
MaxDelay == 2
MaxFactor == 2

\* The parameters the component of Spec is constructed with
\* (connection_retry_count: min_value 0; read_interval in clock ticks)
connection_retry_count == 1
read_interval == 1
evaluation_interval == 1
max_rate_of_change == 100
\* The limits 0.0, 1000.0, 0.0, 1000.0, 0.0, 2000.0, -50.0, 200.0 as the
\* bytes of struct.pack("<f", limit)
mass_flow_min == << 0, 0, 0, 0 >>
mass_flow_max == << 0, 0, 122, 68 >>
volume_flow_min == << 0, 0, 0, 0 >>
volume_flow_max == << 0, 0, 122, 68 >>
density_min == << 0, 0, 0, 0 >>
density_max == << 0, 0, 250, 68 >>
temperature_min == << 0, 0, 72, 194 >>
temperature_max == << 0, 0, 72, 67 >>

\* ------------------------------------------------------- program constants
ENIP_CMD_REGISTER_SESSION == 101
ENIP_CMD_UNREGISTER_SESSION == 102
ENIP_CMD_SEND_RR_DATA == 111
ENIP_CMD_LIST_IDENTITY == 99
ENIP_PROTOCOL_VERSION == 1
GET_ATTRIBUTE_SINGLE == 14
SET_ATTRIBUTE_SINGLE == 16
ASSEMBLY_CLASS_ID == 4
input_assembly_instance == 100
output_assembly_instance == 150

\* An Optional value: None, or Some(v)
None == << >>
Some(v) == << v >>

\* ------------------------------------------------------------ byte helpers
Min(a, b) == IF a < b THEN a ELSE b

\* Python slice s[a:b] (0-based, half-open, clamped to the sequence)
Slice(s, a, b) == SubSeq(s, a + 1, Min(b, Len(s)))

\* Python slice s[a:]
SliceFrom(s, a) == SubSeq(s, a + 1, Len(s))

\* struct.pack("<H", v), struct.pack("<I", v)
PackH(v) == << v % 256, (v \div 256) % 256 >>
PackI(v) == << v % 256, (v \div 256) % 256, (v \div 65536) % 256, (v \div 16777216) % 256 >>

\* struct.unpack("<H", b), struct.unpack("<I", b) on exactly 2 / 4 bytes
UnpackH(b) == b[1] + 256 * b[2]
UnpackI(b) == b[1] + 256 * b[2] + 65536 * b[3] + 16777216 * b[4]

RECURSIVE SeqsUpTo(_, _)
SeqsUpTo(S, n) ==
    IF n = 0 THEN { << >> }
    ELSE LET shorter == SeqsUpTo(S, n - 1)
         IN  shorter \cup { Append(s, b) : s \in { t \in shorter : Len(t) = n - 1 }, b \in S }

Bytes == 0 .. MaxByte

\* ------------------------------------------------------------ peer inputs
Reply(status, data) == [kind |-> "reply", status |-> status, data |-> data]
Failure(kind) == [kind |-> kind, status |-> 0, data |-> << >>]
Failures == { Failure(k) : k \in {"send_fail", "timeout", "short_header", "short_payload"} }

\* RegisterSession responses: any status in {0, 1}, and a payload of up to
\* MaxRegLen bytes: any 4 bytes of session handle followed by zero bytes, or
\* a part of that
RegReplies ==
    { Reply(s, Slice(h \o << 0, 0, 0, 0 >>, 0, n)) :
          s \in {0, 1}, h \in { d \in SeqsUpTo(Bytes, 4) : Len(d) = 4 }, n \in 0 .. MaxRegLen }

\* ----------------------------------------------------------- EnipClient
\* EnipClient.__init__; sock and session_handle are the object's fields, the
\* others record what happened on the current socket:
\*   reg      a RegisterSession exchange has succeeded on the current socket
\*   regData  the payload of that RegisterSession response
\*   invalid  a transport error or a malformed response was met on the
\*            current socket
\*   reused   a SendRRData frame was written on the current socket after
\*            that
\*   wire     what the running operation did on the network, in order:
\*            "open", "tcp_fail", a written frame, "R" (complete response
\*            read), "F" (failure observed), "sock_close"
EnipClient ==
    [sock |-> None, session_handle |-> 0,
     reg |-> FALSE, regData |-> << >>, invalid |-> FALSE, reused |-> FALSE,
     wire |-> << >>]

\* The client at the start of a call (the wire log is per call)
Fresh(c) == [c EXCEPT !.wire = << >>]

\* Where an exception is raised (`why`), by the kind of failure it reports
TransportWhys == {"send_fail", "timeout", "short_header", "short_payload",
                  "enip_status", "register_status"}
MalformedWhys == {"register_too_short", "rr_too_short", "cpf_truncated", "no_cip_item",
                  "cip_too_short", "service_mismatch", "add_status_truncated"}

\* A method returning ret / raising an exception of class kind at site why
Ok(c, ret) == [c |-> c, exc |-> "none", why |-> "ok", ret |-> ret]
Raise(c, kind, why) ==
    [c |-> IF why \in TransportWhys \cup MalformedWhys THEN [c EXCEPT !.invalid = TRUE] ELSE c,
     exc |-> kind, why |-> why, ret |-> << >>]

\* Variant: the length field counts the 24 header bytes as well
Frame_length_with_header(command, data, session) ==
    [t |-> "W", command |-> command, length |-> 24 + Len(data),
     session_handle |-> session, status |-> 0,
     sender_context |-> << 0, 0, 0, 0, 0, 0, 0, 0 >>, options |-> 0,
     data |-> data]

\* The frame _send_enip writes: the arguments of struct.pack("<HHII8sI", …)
\* and the payload
Frame(command, data, session) ==
    [t |-> "W", command |-> command, length |-> Len(data),
     session_handle |-> session, status |-> 0,
     sender_context |-> << 0, 0, 0, 0, 0, 0, 0, 0 >>, options |-> 0,
     data |-> data]

Ev(t) == [t |-> t]

\* struct.pack("<HHII8sI", command, length, session_handle, status,
\* sender_context, options)
pack_header(command, length, session_handle, status, sender_context, options) ==
    PackH(command) \o PackH(length) \o PackI(session_handle) \o PackI(status)
        \o sender_context \o PackI(options)

\* The 24 header bytes of a written frame
HeaderOf(f) ==
    pack_header(f.command, f.length, f.session_handle, f.status, f.sender_context, f.options)

\* What the peer does after the request was sent: it sends the bytes `stream`
\* and then closes the connection (eof = "close": recv returns b"") or goes
\* silent (eof = "stall": recv raises socket.timeout)
Peer(stream, eof) == [stream |-> stream, eof |-> eof]

\* Variant: _recv_exact returns the bytes it got when the peer closes
recv_exact_returns_short(peer, n) ==
    IF Len(peer.stream) >= n \/ peer.eof = "close"
    THEN [exc |-> "none", buf |-> Slice(peer.stream, 0, n),
          rest |-> Peer(SliceFrom(peer.stream, n), peer.eof)]
    ELSE [exc |-> "OSError", buf |-> << >>, rest |-> peer]

\* EnipClient._recv_exact: the n bytes read and what the peer still sends
recv_exact(peer, n) ==
    IF Len(peer.stream) >= n
    THEN [exc |-> "none", buf |-> Slice(peer.stream, 0, n),
          rest |-> Peer(SliceFrom(peer.stream, n), peer.eof)]
    ELSE IF peer.eof = "close"
         THEN [exc |-> "EnipError", buf |-> << >>, rest |-> peer]
         ELSE [exc |-> "OSError", buf |-> << >>, rest |-> peer]

\* EnipClient._send_enip, `payload = self._recv_exact(r_length)` having ended
\* as p after the header hdr: the EnipResponse (status and data) or the
\* failure
recv_payload(hdr, p) ==
    IF p.exc = "EnipError" THEN Failure("short_payload")
    ELSE IF p.exc # "none" THEN Failure("timeout")
    ELSE Reply(UnpackI(Slice(hdr, 8, 12)), p.buf)

\* EnipClient._send_enip, `hdr = self._recv_exact(24)` having ended as h
recv_header(h) ==
    IF h.exc = "EnipError" THEN Failure("short_header")
    ELSE IF h.exc # "none" THEN Failure("timeout")
    ELSE IF Len(h.buf) # 24 THEN Failure("short_header")
    ELSE recv_payload(h.buf, recv_exact(h.rest, UnpackH(Slice(h.buf, 2, 4))))

\* EnipClient._send_enip, reading the response from the peer
recv_response(peer) == recv_header(recv_exact(peer, 24))

\* Variant: _send_enip returns once the frame is written, without reading
\* the response
send_enip_without_read(c, command, data, x) ==
    IF c.sock = None THEN Raise(c, "EnipError", "not_connected")
    ELSE LET w == [c EXCEPT !.wire = Append(@, Frame(command, data, c.session_handle)),
                            !.reused = @ \/ (c.invalid /\ command = ENIP_CMD_SEND_RR_DATA)]
             f == [w EXCEPT !.wire = Append(@, Ev("F"))]
         IN  CASE x.kind = "send_fail" -> Raise(f, "OSError", "send_fail")
               [] x.kind = "timeout" -> Raise(f, "OSError", "timeout")
               [] x.kind = "short_header" -> Raise(f, "EnipError", "short_header")
               [] x.kind = "short_payload" -> Raise(f, "EnipError", "short_payload")
               [] OTHER -> Ok(w, [status |-> x.status, data |-> x.data])

\* EnipClient._send_enip (with _recv_exact); ret is the EnipResponse
send_enip(c, command, data, x) ==
    IF c.sock = None THEN Raise(c, "EnipError", "not_connected")
    ELSE LET w == [c EXCEPT !.wire = Append(@, Frame(command, data, c.session_handle)),
                            !.reused = @ \/ (c.invalid /\ command = ENIP_CMD_SEND_RR_DATA)]
             f == [w EXCEPT !.wire = Append(@, Ev("F"))]
         IN  CASE x.kind = "send_fail" -> Raise(f, "OSError", "send_fail")
               [] x.kind = "timeout" -> Raise(f, "OSError", "timeout")
               [] x.kind = "short_header" -> Raise(f, "EnipError", "short_header")
               [] x.kind = "short_payload" -> Raise(f, "EnipError", "short_payload")
               [] OTHER -> Ok([w EXCEPT !.wire = Append(@, Ev("R"))],
                              [status |-> x.status, data |-> x.data])

\* EnipClient._register_session, once _send_enip has ended as r
register_session_resp(r) ==
    IF r.exc # "none" THEN r
    ELSE IF r.ret.status # 0 THEN Raise(r.c, "EnipError", "register_status")
    ELSE IF Len(r.ret.data) < 4 THEN Raise(r.c, "EnipError", "register_too_short")
    ELSE Ok([r.c EXCEPT !.session_handle = UnpackI(Slice(r.ret.data, 0, 4)),
                        !.reg = TRUE, !.regData = r.ret.data], << >>)

\* EnipClient._register_session
register_session(c, x) ==
    register_session_resp(
        send_enip(c, ENIP_CMD_REGISTER_SESSION, PackH(ENIP_PROTOCOL_VERSION) \o PackH(0), x))

\* EnipClient._unregister_session, once _send_enip has ended as r
unregister_session_resp(r) ==
    IF r.exc # "none" THEN r
    ELSE Ok([r.c EXCEPT !.session_handle = 0], << >>)

\* EnipClient._unregister_session
unregister_session(c, x) ==
    unregister_session_resp(send_enip(c, ENIP_CMD_UNREGISTER_SESSION, << >>, x))

\* Variant: connect without the `if self.sock is not None: return` guard
connect_without_guard(c, tcp_ok, x) ==
    IF ~tcp_ok
    THEN Raise([c EXCEPT !.wire = Append(@, Ev("tcp_fail"))], "OSError", "tcp_connect")
    ELSE register_session(
             [c EXCEPT !.sock = Some("socket"), !.reg = FALSE, !.regData = << >>,
                       !.invalid = FALSE, !.reused = FALSE,
                       !.wire = Append(@, Ev("open"))], x)

\* EnipClient.connect; tcp_ok is whether socket.connect succeeds
connect(c, tcp_ok, x) ==
    IF c.sock # None THEN Ok(c, << >>)
    ELSE IF ~tcp_ok
         THEN Raise([c EXCEPT !.wire = Append(@, Ev("tcp_fail"))], "OSError", "tcp_connect")
    ELSE register_session(
             [c EXCEPT !.sock = Some("socket"), !.reg = FALSE, !.regData = << >>,
                       !.invalid = FALSE, !.reused = FALSE,
                       !.wire = Append(@, Ev("open"))], x)

\* Variant: the finally block of close without `self.session_handle = 0`
close_finally_keeps_handle(r) ==
    [c |-> IF r.c.sock # None
           THEN [r.c EXCEPT !.sock = None,
                            !.reg = FALSE, !.regData = << >>, !.invalid = FALSE,
                            !.wire = Append(@, Ev("sock_close"))]
           ELSE r.c,
     exc |-> r.exc, why |-> r.why, ret |-> << >>]

\* EnipClient.close, the finally block, the try block having ended as r
close_finally(r) ==
    [c |-> IF r.c.sock # None
           THEN [r.c EXCEPT !.sock = None, !.session_handle = 0,
                            !.reg = FALSE, !.regData = << >>, !.invalid = FALSE,
                            !.wire = Append(@, Ev("sock_close"))]
           ELSE r.c,
     exc |-> r.exc, why |-> r.why, ret |-> << >>]

\* EnipClient.close: try/finally without except, so an exception of
\* _unregister_session leaves close() after the finally block has run
close(c, x) ==
    close_finally(IF c.session_handle # 0 THEN unregister_session(c, x) ELSE Ok(c, << >>))

\* EnipClient.list_identity
list_identity(c, x) == send_enip(c, ENIP_CMD_LIST_IDENTITY, << >>, x)

\* EnipClient.send_rr_data, the CPF item loop: struct.unpack("<HH", …) of a
\* slice shorter than 4 bytes raises struct.error; slices are clamped
RECURSIVE cpf_items(_, _, _, _)
cpf_items(data, offset, remaining, cip_reply) ==
    IF remaining = 0 THEN [exc |-> "none", cip_reply |-> cip_reply]
    ELSE LET h == Slice(data, offset, offset + 4)
         IN  IF Len(h) # 4 THEN [exc |-> "struct.error", cip_reply |-> << >>]
             ELSE LET item_id == UnpackH(Slice(h, 0, 2))
                      item_len == UnpackH(Slice(h, 2, 4))
                      item_data == Slice(data, offset + 4, offset + 4 + item_len)
                  IN  cpf_items(data, offset + 4 + item_len, remaining - 1,
                                IF item_id = 178 THEN item_data ELSE cip_reply)

\* The SendRRData request payload built by send_rr_data
rr_payload(cip_payload) ==
    PackI(0) \o PackH(0) \o PackH(2) \o PackH(0) \o PackH(0) \o PackH(178)
        \o PackH(Len(cip_payload)) \o cip_payload

\* EnipClient.send_rr_data, after the item loop has ended as p
send_rr_data_items(c, p) ==
    IF p.exc # "none" THEN Raise(c, p.exc, "cpf_truncated")
    ELSE IF p.cip_reply = << >> THEN Raise(c, "EnipError", "no_cip_item")
    ELSE Ok(c, p.cip_reply)

\* EnipClient.send_rr_data, once _send_enip has ended as r
send_rr_data_resp(r) ==
    IF r.exc # "none" THEN r
    ELSE IF r.ret.status # 0 THEN Raise(r.c, "EnipError", "enip_status")
    ELSE IF Len(r.ret.data) < 10 THEN Raise(r.c, "EnipError", "rr_too_short")
    ELSE send_rr_data_items(
             r.c, cpf_items(r.ret.data, 8, UnpackH(Slice(r.ret.data, 6, 8)), << >>))

\* EnipClient.send_rr_data; ret is the CIP reply bytes
send_rr_data(c, cip_payload, x) ==
    send_rr_data_resp(send_enip(c, ENIP_CMD_SEND_RR_DATA, rr_payload(cip_payload), x))

\* ------------------------------------------------------------- CIP layer
\* Variant: the 16-bit form is chosen from 255 on
seg_wide_from_255(seg_type, value) ==
    IF value < 0 \/ value > 65535 THEN [exc |-> "ValueError", bytes |-> << >>]
    ELSE IF value < 255 THEN [exc |-> "none", bytes |-> << seg_type, value >>]
    ELSE [exc |-> "none", bytes |-> << seg_type + 1, 0 >> \o PackH(value)]

\* CIPPath.encode.seg
seg(seg_type, value) ==
    IF value < 0 \/ value > 65535 THEN [exc |-> "ValueError", bytes |-> << >>]
    ELSE IF value < 256 THEN [exc |-> "none", bytes |-> << seg_type, value >>]
    ELSE [exc |-> "none", bytes |-> << seg_type + 1, 0 >> \o PackH(value)]

\* CIPPath.encode; each id is None or Some(value)
encode(class_id, instance_id, attribute_id) ==
    LET s1 == IF class_id # None THEN seg(32, class_id[1]) ELSE [exc |-> "none", bytes |-> << >>]
        s2 == IF instance_id # None THEN seg(36, instance_id[1]) ELSE [exc |-> "none", bytes |-> << >>]
        s3 == IF attribute_id # None THEN seg(48, attribute_id[1]) ELSE [exc |-> "none", bytes |-> << >>]
    IN  IF s1.exc # "none" \/ s2.exc # "none" \/ s3.exc # "none"
        THEN [exc |-> "ValueError", bytes |-> << >>]
        ELSE [exc |-> "none", bytes |-> s1.bytes \o s2.bytes \o s3.bytes]

\* service | 0x80 for a one-byte service code
ReplyService(service) == IF (service \div 128) % 2 = 1 THEN service ELSE service + 128

\* struct.unpack("<" + "H" * k, raw): the k words of raw
RECURSIVE UnpackWords(_)
UnpackWords(raw) ==
    IF Len(raw) < 2 THEN << >>
    ELSE << UnpackH(Slice(raw, 0, 2)) >> \o UnpackWords(SliceFrom(raw, 2))

\* Variant: the pad byte is appended whatever the length of the path
cip_request_always_pads(service, path_bytes, data) ==
    << service, (Len(path_bytes) + 1) \div 2 >> \o path_bytes \o << 0 >> \o data

\* The CIP request bytes built by CIPClient._send_cip
cip_request(service, path_bytes, data) ==
    LET padded == IF Len(path_bytes) % 2 # 0 THEN path_bytes \o << 0 >> ELSE path_bytes
    IN  << service, Len(padded) \div 2 >> \o padded \o data

\* Variant: the data is taken to start right after the 4-byte header
send_cip_resp_ignores_add_status(r, service) ==
    IF r.exc # "none" THEN r
    ELSE IF Len(r.ret) < 4 THEN Raise(r.c, "CIPError", "cip_too_short")
    ELSE IF r.ret[1] # ReplyService(service)
         THEN Raise(r.c, "CIPError", "service_mismatch")
    ELSE IF r.ret[3] # 0
         THEN IF r.ret[4] # 0 /\ Len(Slice(r.ret, 4, 4 + r.ret[4] * 2)) # r.ret[4] * 2
              THEN Raise(r.c, "struct.error", "add_status_truncated")
              ELSE [c |-> r.c, exc |-> "CIPError", why |-> "general_status",
                    ret |-> [gen_status |-> r.ret[3],
                             add_status |-> UnpackWords(Slice(r.ret, 4, 4 + r.ret[4] * 2))]]
         ELSE Ok(r.c, SliceFrom(r.ret, 4))

\* CIPClient._send_cip, once send_rr_data has ended as r; ret is the response
\* data, or for a CIPError raised on a non-zero general status the record
\* [gen_status, add_status]
send_cip_resp(r, service) ==
    IF r.exc # "none" THEN r
    ELSE IF Len(r.ret) < 4 THEN Raise(r.c, "CIPError", "cip_too_short")
    ELSE IF r.ret[1] # ReplyService(service)
         THEN Raise(r.c, "CIPError", "service_mismatch")
    ELSE LET gen_status == r.ret[3]
             add_stat_size == r.ret[4]
             offset == 4 + r.ret[4] * 2
             add_raw == Slice(r.ret, 4, 4 + r.ret[4] * 2)
         IN  IF gen_status # 0
             THEN IF add_stat_size # 0 /\ Len(add_raw) # add_stat_size * 2
                  THEN Raise(r.c, "struct.error", "add_status_truncated")
                  ELSE [c |-> r.c, exc |-> "CIPError", why |-> "general_status",
                        ret |-> [gen_status |-> gen_status,
                                 add_status |-> UnpackWords(add_raw)]]
             ELSE Ok(r.c, SliceFrom(r.ret, offset))

\* Variant: the request is sent with an empty path before the range error is
\* raised
send_cip_path_checks_late(c, service, p, data, x) ==
    IF p.exc # "none"
    THEN Raise(send_rr_data(c, cip_request(service, << >>, data), x).c, p.exc, "epath_range")
    ELSE send_cip_resp(send_rr_data(c, cip_request(service, p.bytes, data), x), service)

\* CIPClient._send_cip, path.encode() having ended as p
send_cip_path(c, service, p, data, x) ==
    IF p.exc # "none" THEN Raise(c, p.exc, "epath_range")
    ELSE send_cip_resp(send_rr_data(c, cip_request(service, p.bytes, data), x), service)

\* CIPClient._send_cip
send_cip(c, service, class_id, instance_id, attribute_id, data, x) ==
    send_cip_path(c, service, encode(class_id, instance_id, attribute_id), data, x)

\* CIPClient.get_attribute_single
get_attribute_single(c, class_id, instance_id, attribute_id, x) ==
    send_cip(c, GET_ATTRIBUTE_SINGLE, Some(class_id), Some(instance_id), Some(attribute_id),
             << >>, x)

\* `_ = self._send_cip(...)`: the response data is discarded
Discard(r) == IF r.exc # "none" THEN r ELSE Ok(r.c, << >>)

\* CIPClient.set_attribute_single
set_attribute_single(c, class_id, instance_id, attribute_id, value, x) ==
    Discard(send_cip(c, SET_ATTRIBUTE_SINGLE, Some(class_id), Some(instance_id),
                     Some(attribute_id), value, x))

\* -------------------------------------------------------- Promass device
\* Variant: volume_flow and density are taken from each other's bytes
parse_input_assembly_swapped(data) ==
    IF Len(data) < 16 THEN [exc |-> "ValueError", values |-> << >>]
    ELSE [exc |-> "none",
          values |-> [mass_flow |-> Slice(data, 0, 4), volume_flow |-> Slice(data, 8, 12),
                      density |-> Slice(data, 4, 8), temperature |-> Slice(data, 12, 16)]]

\* PromassAssemblies.parse_input_assembly; a float is kept as the 4 bytes
\* of its little-endian IEEE-754 encoding
parse_input_assembly(data) ==
    IF Len(data) < 16 THEN [exc |-> "ValueError", values |-> << >>]
    ELSE [exc |-> "none",
          values |-> [mass_flow |-> Slice(data, 0, 4), volume_flow |-> Slice(data, 4, 8),
                      density |-> Slice(data, 8, 12), temperature |-> Slice(data, 12, 16)]]

\* PromassAssemblies.build_output_assembly
build_output_assembly(reset_totalizer_bit) == PackH(IF reset_totalizer_bit THEN 1 ELSE 0)

\* PromassDevice.read_input_assembly_raw
read_input_assembly_raw(c, x) ==
    get_attribute_single(c, ASSEMBLY_CLASS_ID, input_assembly_instance, 3, x)

\* PromassDevice.read_process_values, parse_input_assembly having ended as v
read_process_values_parsed(c, v) ==
    IF v.exc # "none" THEN Raise(c, v.exc, "assembly_too_short") ELSE Ok(c, v.values)

\* PromassDevice.read_process_values, once read_input_assembly_raw has ended
\* as r
read_process_values_raw(r) ==
    IF r.exc # "none" THEN r
    ELSE read_process_values_parsed(r.c, parse_input_assembly(r.ret))

\* PromassDevice.read_process_values; ret is the parsed value record
read_process_values(c, x) == read_process_values_raw(read_input_assembly_raw(c, x))

\* PromassDevice.write_output_assembly_raw
write_output_assembly_raw(c, data, x) ==
    set_attribute_single(c, ASSEMBLY_CLASS_ID, output_assembly_instance, 3, data, x)

\* Variant: the output assembly is built without the reset bit
reset_totalizer_without_bit(c, x) ==
    write_output_assembly_raw(c, build_output_assembly(FALSE), x)

\* PromassDevice.reset_totalizer
reset_totalizer(c, x) == write_output_assembly_raw(c, build_output_assembly(TRUE), x)

\* ------------------------------------------------- responses of the device
\* A CPF item (type id, length, payload) and a SendRRData response payload
\* (interface handle, timeout, item count, items) as send_rr_data parses them
CpfItem(item_id, item_data) == PackH(item_id) \o PackH(Len(item_data)) \o item_data
NullItem == CpfItem(0, << >>)
CpfPayload(item_count, items) == PackI(0) \o PackH(0) \o PackH(item_count) \o items

RECURSIVE PackWords(_)
PackWords(ws) == IF ws = << >> THEN << >> ELSE PackH(ws[1]) \o PackWords(Tail(ws))

\* A CIP response (reply service, reserved, general status, additional
\* status word count, additional status, data) as _send_cip parses it
CipReply(service, gen_status, add_status, data) ==
    << ReplyService(service), 0, gen_status, Len(add_status) >> \o PackWords(add_status) \o data

\* A zero-status SendRRData response carrying cip in one 0x00B2 item
RRReply(cip) == Reply(0, CpfPayload(2, NullItem \o CpfItem(178, cip)))

\* Input assembly contents: the floats (1.0, 2.0, 3.0, 4.0) and
\* (5.0, 6.0, 7.0, 8.0)
AssemblyA == << 0, 0, 128, 63, 0, 0, 0, 64, 0, 0, 64, 64, 0, 0, 128, 64 >>
AssemblyB == << 0, 0, 160, 64, 0, 0, 192, 64, 0, 0, 224, 64, 0, 0, 0, 65 >>

\* Responses to a SendRRData request that do not carry an accepted CIP reply
\* to `service`: non-zero encapsulation status, short payload, truncated
\* CPF, no 0x00B2 item, short CIP reply, wrong reply service, a declared
\* additional status that is not there, and two CIP rejections
BadRRReplies(service) ==
    { Reply(1, << >>),
      Reply(0, << 0, 0, 0 >>),
      Reply(0, CpfPayload(2, NullItem)),
      Reply(0, CpfPayload(1, NullItem)),
      RRReply(<< ReplyService(service), 0 >>),
      RRReply(CipReply(service + 1, 0, << >>, << >>)),
      RRReply(<< ReplyService(service), 0, 5, 2, 1 >>),
      RRReply(CipReply(service, 5, << >>, << >>)),
      RRReply(CipReply(service, 8, << 513 >>, << 9 >>)) }

\* Responses to the GetAttributeSingle of the input assembly
ReadReplies ==
    BadRRReplies(GET_ATTRIBUTE_SINGLE) \cup
    { RRReply(CipReply(GET_ATTRIBUTE_SINGLE, 0, << >>, AssemblyA)),
      RRReply(CipReply(GET_ATTRIBUTE_SINGLE, 0, << 7 >>, AssemblyB \o << 9 >>)),
      RRReply(CipReply(GET_ATTRIBUTE_SINGLE, 0, << >>, SubSeq(AssemblyA, 1, 15))) }

\* Responses to the SetAttributeSingle of the output assembly
WriteReplies ==
    BadRRReplies(SET_ATTRIBUTE_SINGLE) \cup
    { RRReply(CipReply(SET_ATTRIBUTE_SINGLE, 0, << >>, << >>)),
      RRReply(CipReply(SET_ATTRIBUTE_SINGLE, 0, << >>, << 1 >>)) }

\* Responses to UnregisterSession and ListIdentity (status and payload are
\* not looked at by the client)
PlainReplies == { Reply(0, << >>), Reply(1, << 1, 2 >>) }

\* --------------------------------------------- PromassProMagComponent
AlarmNames == {"mass_flow_high", "mass_flow_low", "volume_flow_high", "volume_flow_low",
               "density_high", "density_low", "temperature_high", "temperature_low",
               "rate_of_change_high", "device_error"}

\* The float 0.0
Zero == << 0, 0, 0, 0 >>

\* PromassProMagComponent.__init__ (with LogicComponent.__init__ and
\* BaseKoiosComponent.__init__); device is whether _device is not None
Component ==
    [device |-> FALSE, connected |-> FALSE, device_status |-> "DISCONNECTED",
     mass_flow |-> Zero, volume_flow |-> Zero, density |-> Zero, temperature |-> Zero,
     last_read_time |-> None,
     prev_mass_flow |-> Zero, prev_volume_flow |-> Zero, prev_read_time |-> None,
     status |-> "stopped", last_evaluation_time |-> None,
     connection_retry_count |-> connection_retry_count,
     read_error_count |-> 0, connection_error_count |-> 0,
     total_reads |-> 0, successful_reads |-> 0, failed_reads |-> 0,
     flow_valid |-> FALSE,
     alarms |-> [a \in AlarmNames |-> FALSE],
     inputs |-> [reset_totalizer |-> FALSE]]

\* A component operation works on s = [self, enip, trace, read, write]:
\*   self   the component's fields
\*   enip   the EnipClient of self._device
\*   trace  the attempts and sleeps of the running operation's connect loop
\*   read   how the operation's device read ended: "none" (no read), "ok",
\*          or the site of the exception
\*   write  the same for its reset_totalizer write
Entered(self, c) == [self |-> self, enip |-> Fresh(c), trace |-> << >>,
                     read |-> "none", write |-> "none"]

\* What the device may do in one connect attempt (whether the TCP connect
\* succeeds, and its answer to RegisterSession), and its answers to the
\* component's read, write and UnregisterSession: one answer for each way
\* the exchange can end
NoReply == Failure("timeout")
GoodRegister == Reply(0, << 1, 0, 0, 0 >>)
GoodRead == RRReply(CipReply(GET_ATTRIBUTE_SINGLE, 0, << >>, AssemblyA))
GoodWrite == RRReply(CipReply(SET_ATTRIBUTE_SINGLE, 0, << >>, << >>))

Attempt(tcp_ok, x) == [tcp_ok |-> tcp_ok, x |-> x]
AttemptInputs ==
    { Attempt(FALSE, NoReply), Attempt(TRUE, NoReply), Attempt(TRUE, GoodRegister) }
ReadInputs ==
    { NoReply,
      Reply(0, CpfPayload(1, NullItem)),
      RRReply(CipReply(GET_ATTRIBUTE_SINGLE, 5, << >>, << >>)),
      RRReply(CipReply(GET_ATTRIBUTE_SINGLE, 0, << >>, SubSeq(AssemblyA, 1, 15))),
      GoodRead,
      RRReply(CipReply(GET_ATTRIBUTE_SINGLE, 0, << 7 >>, AssemblyA \o << 9 >>)) }
WriteInputs ==
    { NoReply,
      Reply(1, << >>),
      RRReply(CipReply(SET_ATTRIBUTE_SINGLE + 1, 0, << >>, << >>)),
      RRReply(CipReply(SET_ATTRIBUTE_SINGLE, 5, << >>, << >>)),
      GoodWrite }
CloseInputs == { Reply(0, << >>), Failure("short_header") }

\* The component's operations are modelled by the set of their possible
\* results, one for each behaviour of the device during the operation.

\* PromassProMagComponent._connect_device, the retry loop from `attempt` on:
\* the set of [s, ret].  An attempt event records `stale`: the device object
\* being replaced still holds an open socket.
\* range(self._connection_retry_count + 1) is exhausted at `attempt`
attempts_exhausted(this, attempt) == attempt > this.connection_retry_count

\* Variant: the loop sleeps after every failed attempt, the last included
sleeps_after_every_failure(this, attempt) == attempt <= this.connection_retry_count

\* `if attempt < self._connection_retry_count: time.sleep(...)`
sleeps_after(this, attempt) == attempt < this.connection_retry_count

\* Variant: a successful attempt sets _connected and leaves device_status
RECURSIVE connect_loop_keeps_status(_, _)
connect_loop_keeps_status(s, attempt) ==
    IF attempts_exhausted(s.self, attempt)
    THEN { [s |-> [s EXCEPT !.self.connected = FALSE,
                            !.self.device_status = "CONNECTION_FAILED"],
            ret |-> FALSE] }
    ELSE LET started == [s EXCEPT !.self.device = TRUE,
                                  !.enip = EnipClient,
                                  !.trace = Append(@, [t |-> "attempt",
                                                       stale |-> s.self.device /\ s.enip.sock # None])]
             after(r) ==
                 IF r.exc = "none"
                 THEN { [s |-> [started EXCEPT !.enip = r.c,
                                               !.self.connected = TRUE,
                                               !.trace = Append(@, [t |-> "ok", stale |-> FALSE])],
                         ret |-> TRUE] }
                 ELSE LET failed == [started EXCEPT !.enip = r.c,
                                                    !.self.connection_error_count = @ + 1,
                                                    !.trace = Append(@, [t |-> "fail", stale |-> FALSE])]
                          slept == IF sleeps_after(s.self, attempt)
                                   THEN [failed EXCEPT !.trace = Append(@, [t |-> "sleep", stale |-> FALSE])]
                                   ELSE failed
                      IN  connect_loop_keeps_status(slept, attempt + 1)
         IN  UNION { after(r) : r \in { connect(started.enip, a.tcp_ok, a.x) : a \in AttemptInputs } }

\* PromassProMagComponent._connect_device, the attempts from `attempt` on:
\* the set of [s, ret]
RECURSIVE connect_loop(_, _)
connect_loop(s, attempt) ==
    IF attempts_exhausted(s.self, attempt)
    THEN { [s |-> [s EXCEPT !.self.connected = FALSE,
                            !.self.device_status = "CONNECTION_FAILED"],
            ret |-> FALSE] }
    ELSE LET started == [s EXCEPT !.self.device = TRUE,
                                  !.enip = EnipClient,
                                  !.trace = Append(@, [t |-> "attempt",
                                                       stale |-> s.self.device /\ s.enip.sock # None])]
             after(r) ==
                 IF r.exc = "none"
                 THEN { [s |-> [started EXCEPT !.enip = r.c,
                                               !.self.connected = TRUE,
                                               !.self.device_status = "CONNECTED",
                                               !.trace = Append(@, [t |-> "ok", stale |-> FALSE])],
                         ret |-> TRUE] }
                 ELSE LET failed == [started EXCEPT !.enip = r.c,
                                                    !.self.connection_error_count = @ + 1,
                                                    !.trace = Append(@, [t |-> "fail", stale |-> FALSE])]
                          slept == IF sleeps_after(s.self, attempt)
                                   THEN [failed EXCEPT !.trace = Append(@, [t |-> "sleep", stale |-> FALSE])]
                                   ELSE failed
                      IN  connect_loop(slept, attempt + 1)
         IN  UNION { after(r) : r \in { connect(started.enip, a.tcp_ok, a.x) : a \in AttemptInputs } }

\* Variant: once the connection attempts have all failed, no further attempt
\* is made
connect_device_gives_up(s) ==
    IF s.self.connected /\ s.self.device THEN { [s |-> s, ret |-> TRUE] }
    ELSE IF s.self.connection_error_count > 0 THEN { [s |-> s, ret |-> FALSE] }
    ELSE connect_loop(s, 0)

\* PromassProMagComponent._connect_device: the set of [s, ret]
connect_device(s) ==
    IF s.self.connected /\ s.self.device THEN { [s |-> s, ret |-> TRUE] }
    ELSE connect_loop(s, 0)

\* Variant: _disconnect_device without the assignment of device_status
disconnect_device_keeps_status(s) ==
    IF s.self.device
    THEN { [s EXCEPT !.enip = c,
                     !.self.device = FALSE,
                     !.self.connected = FALSE]
           : c \in { close(s.enip, x).c : x \in CloseInputs } }
    ELSE { s }

\* PromassProMagComponent._disconnect_device (PromassDevice.disconnect is
\* EnipClient.close; its exception is logged and dropped): the set of s
disconnect_device(s) ==
    IF s.self.device
    THEN { [s EXCEPT !.enip = c,
                     !.self.device = FALSE,
                     !.self.connected = FALSE,
                     !.self.device_status = "DISCONNECTED"]
           : c \in { close(s.enip, x).c : x \in CloseInputs } }
    ELSE { s }

\* Variant: a successful read assigns the mass flow only
read_attempt_mass_flow_only(s, now) ==
    LET after(r) ==
            IF r.exc = "none"
            THEN { [s |-> [s EXCEPT !.enip = r.c,
                                    !.read = "ok",
                                    !.self.mass_flow = r.ret.mass_flow,
                                    !.self.last_read_time = Some(now),
                                    !.self.total_reads = @ + 1,
                                    !.self.successful_reads = @ + 1],
                    ret |-> TRUE] }
            ELSE LET e == [s EXCEPT !.enip = r.c,
                                    !.read = r.why,
                                    !.self.read_error_count = @ + 1,
                                    !.self.failed_reads = @ + 1,
                                    !.self.connected = FALSE,
                                    !.self.device_status = "READ_ERROR"]
                 IN  { [s |-> d, ret |-> FALSE]
                       : d \in IF e.self.device THEN disconnect_device(e) ELSE { e } }
    IN  IF s.self.device
        THEN UNION { after(r) : r \in { read_process_values(s.enip, x) : x \in ReadInputs } }
        ELSE after(Raise(s.enip, "AttributeError", "no_device"))

\* Variant: a failed read is counted in total_reads as well
read_attempt_counts_failure(s, now) ==
    LET after(r) ==
            IF r.exc = "none"
            THEN { [s |-> [s EXCEPT !.enip = r.c,
                                    !.read = "ok",
                                    !.self.mass_flow = r.ret.mass_flow,
                                    !.self.volume_flow = r.ret.volume_flow,
                                    !.self.density = r.ret.density,
                                    !.self.temperature = r.ret.temperature,
                                    !.self.last_read_time = Some(now),
                                    !.self.total_reads = @ + 1,
                                    !.self.successful_reads = @ + 1],
                    ret |-> TRUE] }
            ELSE LET e == [s EXCEPT !.enip = r.c,
                                    !.read = r.why,
                                    !.self.read_error_count = @ + 1,
                                    !.self.total_reads = @ + 1,
                                    !.self.failed_reads = @ + 1,
                                    !.self.connected = FALSE,
                                    !.self.device_status = "READ_ERROR"]
                 IN  { [s |-> d, ret |-> FALSE]
                       : d \in IF e.self.device THEN disconnect_device(e) ELSE { e } }
    IN  IF s.self.device
        THEN UNION { after(r) : r \in { read_process_values(s.enip, x) : x \in ReadInputs } }
        ELSE after(Raise(s.enip, "AttributeError", "no_device"))

\* PromassProMagComponent._read_device_data, from the try block on
read_attempt(s, now) ==
    LET after(r) ==
            IF r.exc = "none"
            THEN { [s |-> [s EXCEPT !.enip = r.c,
                                    !.read = "ok",
                                    !.self.mass_flow = r.ret.mass_flow,
                                    !.self.volume_flow = r.ret.volume_flow,
                                    !.self.density = r.ret.density,
                                    !.self.temperature = r.ret.temperature,
                                    !.self.last_read_time = Some(now),
                                    !.self.total_reads = @ + 1,
                                    !.self.successful_reads = @ + 1],
                    ret |-> TRUE] }
            ELSE LET e == [s EXCEPT !.enip = r.c,
                                    !.read = r.why,
                                    !.self.read_error_count = @ + 1,
                                    !.self.failed_reads = @ + 1,
                                    !.self.connected = FALSE,
                                    !.self.device_status = "READ_ERROR"]
                 IN  { [s |-> d, ret |-> FALSE]
                       : d \in IF e.self.device THEN disconnect_device(e) ELSE { e } }
    IN  IF s.self.device
        THEN UNION { after(r) : r \in { read_process_values(s.enip, x) : x \in ReadInputs } }
        ELSE after(Raise(s.enip, "AttributeError", "no_device"))

\* Variant: the read is attempted whatever _connect_device returned
read_device_data_reads_anyway(s, now) ==
    LET connected == IF ~s.self.connected \/ ~s.self.device
                     THEN connect_device(s) ELSE { [s |-> s, ret |-> TRUE] }
    IN  UNION { read_attempt(c.s, now) : c \in connected }

\* PromassProMagComponent._read_device_data; now is time.time(): the set of
\* [s, ret]
read_device_data(s, now) ==
    LET connected == IF ~s.self.connected \/ ~s.self.device
                     THEN connect_device(s) ELSE { [s |-> s, ret |-> TRUE] }
    IN  UNION { IF ~c.ret THEN { [s |-> c.s, ret |-> FALSE] } ELSE read_attempt(c.s, now)
                : c \in connected }

\* Variant: the command is cleared whether or not the write succeeded
reset_command_clears_always(s) ==
    IF s.self.inputs.reset_totalizer /\ s.self.connected /\ s.self.device
    THEN { IF r.exc = "none"
           THEN [s EXCEPT !.enip = r.c, !.write = "ok",
                          !.self.inputs.reset_totalizer = FALSE]
           ELSE [s EXCEPT !.enip = r.c, !.write = r.why,
                          !.self.inputs.reset_totalizer = FALSE,
                          !.self.alarms.device_error = TRUE]
           : r \in { reset_totalizer(s.enip, x) : x \in WriteInputs } }
    ELSE { s }

\* PromassProMagComponent.execute_logic, the reset totalizer command
reset_command(s) ==
    IF s.self.inputs.reset_totalizer /\ s.self.connected /\ s.self.device
    THEN { IF r.exc = "none"
           THEN [s EXCEPT !.enip = r.c, !.write = "ok",
                          !.self.inputs.reset_totalizer = FALSE]
           ELSE [s EXCEPT !.enip = r.c, !.write = r.why,
                          !.self.alarms.device_error = TRUE]
           : r \in { reset_totalizer(s.enip, x) : x \in WriteInputs } }
    ELSE { s }

\* Variant: a read is due only when more than read_interval has elapsed
execute_logic_strict_interval(s, now) ==
    LET should_read == s.self.last_read_time = None
                       \/ now - s.self.last_read_time[1] > read_interval
        after_read == IF should_read THEN { r.s : r \in read_device_data(s, now) } ELSE { s }
    IN  UNION { reset_command(a) : a \in after_read }

\* PromassProMagComponent.execute_logic: the set of s
execute_logic(s, now) ==
    LET should_read == s.self.last_read_time = None
                       \/ now - s.self.last_read_time[1] >= read_interval
        after_read == IF should_read THEN { r.s : r \in read_device_data(s, now) } ELSE { s }
    IN  UNION { reset_command(a) : a \in after_read }

\* ------------------------------------------------- condition evaluation
\* A float is the 4 bytes of its little-endian IEEE-754 single encoding.
\* Its magnitude bits, its sign bit, and whether it is a NaN
FloatMag(b) == b[1] + 256 * b[2] + 65536 * b[3] + 16777216 * (b[4] % 128)
FloatNeg(b) == b[4] >= 128
IsNaN(b) == FloatMag(b) > 2139095040

\* a < b on floats: false when either is a NaN, else the order of the
\* sign-magnitude encodings
FloatKey(b) == IF FloatNeg(b) THEN 0 - FloatMag(b) ELSE FloatMag(b)
FloatLess(a, b) == ~IsNaN(a) /\ ~IsNaN(b) /\ FloatKey(a) < FloatKey(b)

RECURSIVE Pow2(_)
Pow2(n) == IF n = 0 THEN 1 ELSE 2 * Pow2(n - 1)

\* The floats that are whole numbers below 2^24 in magnitude, and their
\* value
IsWhole(b) ==
    \/ FloatMag(b) = 0
    \/ /\ FloatMag(b) \div 8388608 \in 127 .. 150
       /\ (8388608 + (FloatMag(b) % 8388608)) % Pow2(150 - FloatMag(b) \div 8388608) = 0
WholeMag(b) ==
    IF FloatMag(b) = 0 THEN 0
    ELSE (8388608 + (FloatMag(b) % 8388608)) \div Pow2(150 - FloatMag(b) \div 8388608)
WholeValue(b) == IF FloatNeg(b) THEN 0 - WholeMag(b) ELSE WholeMag(b)
Abs(n) == IF n < 0 THEN 0 - n ELSE n

\* Variant: the alarms are not cleared first
validated_alarms_without_reset(this) ==
    [a \in AlarmNames |->
        CASE a = "mass_flow_low" -> FloatLess(this.mass_flow, mass_flow_min)
          [] a = "mass_flow_high" ->
                 ~FloatLess(this.mass_flow, mass_flow_min)
                 /\ FloatLess(mass_flow_max, this.mass_flow)
          [] a = "volume_flow_low" -> FloatLess(this.volume_flow, volume_flow_min)
          [] a = "volume_flow_high" ->
                 ~FloatLess(this.volume_flow, volume_flow_min)
                 /\ FloatLess(volume_flow_max, this.volume_flow)
          [] a = "density_low" -> FloatLess(this.density, density_min)
          [] a = "density_high" ->
                 ~FloatLess(this.density, density_min)
                 /\ FloatLess(density_max, this.density)
          [] a = "temperature_low" -> FloatLess(this.temperature, temperature_min)
          [] a = "temperature_high" ->
                 ~FloatLess(this.temperature, temperature_min)
                 /\ FloatLess(temperature_max, this.temperature)
          [] OTHER -> this.alarms[a]]

\* PromassProMagComponent._validate_flow_values: the alarms it sets
validated_alarms(this) ==
    [a \in AlarmNames |->
        CASE a = "mass_flow_low" -> FloatLess(this.mass_flow, mass_flow_min)
          [] a = "mass_flow_high" ->
                 ~FloatLess(this.mass_flow, mass_flow_min)
                 /\ FloatLess(mass_flow_max, this.mass_flow)
          [] a = "volume_flow_low" -> FloatLess(this.volume_flow, volume_flow_min)
          [] a = "volume_flow_high" ->
                 ~FloatLess(this.volume_flow, volume_flow_min)
                 /\ FloatLess(volume_flow_max, this.volume_flow)
          [] a = "density_low" -> FloatLess(this.density, density_min)
          [] a = "density_high" ->
                 ~FloatLess(this.density, density_min)
                 /\ FloatLess(density_max, this.density)
          [] a = "temperature_low" -> FloatLess(this.temperature, temperature_min)
          [] a = "temperature_high" ->
                 ~FloatLess(this.temperature, temperature_min)
                 /\ FloatLess(temperature_max, this.temperature)
          [] OTHER -> FALSE]

\* PromassProMagComponent._validate_flow_values, with the assignment of its
\* result to _flow_valid in evaluate_conditions
validate_flow_values(this) ==
    [this EXCEPT !.alarms = validated_alarms(this),
                 !.flow_valid = \A a \in AlarmNames : ~validated_alarms(this)[a]]

\* abs(value - prev) / dt > self._max_rate_of_change for dt > 0: computed for
\* whole numbers and for equal values; the quotient of other floats is not
\* computed, either outcome is taken
rate_exceeds(value, prev, dt) ==
    IF IsWhole(value) /\ IsWhole(prev)
    THEN { Abs(WholeValue(value) - WholeValue(prev)) > max_rate_of_change * dt }
    ELSE IF value = prev /\ ~IsNaN(value) THEN { FALSE }
    ELSE BOOLEAN

\* PromassProMagComponent._check_rate_of_change, the values kept for the
\* next check
rate_reference(this, now) ==
    [this EXCEPT !.prev_read_time = Some(now),
                 !.prev_mass_flow = this.mass_flow,
                 !.prev_volume_flow = this.volume_flow]

\* PromassProMagComponent._check_rate_of_change at time now: the set of the
\* component's fields after it
check_rate_of_change(this, now) ==
    IF this.prev_read_time = None THEN { rate_reference(this, now) }
    ELSE IF now - this.prev_read_time[1] > 0
    THEN { IF m \/ v THEN [this EXCEPT !.alarms.rate_of_change_high = TRUE]
                     ELSE rate_reference(this, now)
           : m \in rate_exceeds(this.mass_flow, this.prev_mass_flow,
                                now - this.prev_read_time[1]),
             v \in rate_exceeds(this.volume_flow, this.prev_volume_flow,
                                now - this.prev_read_time[1]) }
    ELSE { rate_reference(this, now) }

\* PromassProMagComponent.evaluate_conditions at time now (flow validation
\* and rate of change check enabled): the set of the component's fields
\* after it
evaluate_conditions(this, now) == check_rate_of_change(validate_flow_values(this), now)

\* ------------------------------------------------------------- lifecycle
\* The logic state is IDLE throughout (the component never sets another) and
\* is not kept.
\* LogicComponent.initialize (no default inputs or outputs configured)
initialize(this) ==
    [this EXCEPT !.status = "initialized", !.last_evaluation_time = None]

\* Variant: start() makes no test of the status
start_from_any_status(this) ==
    [self |-> [this EXCEPT !.status = "running"], ret |-> TRUE]

\* LogicComponent.start: [self, ret]
start(this) ==
    IF this.status # "initialized"
    THEN [self |-> [this EXCEPT !.status = "error"], ret |-> FALSE]
    ELSE [self |-> [this EXCEPT !.status = "running"], ret |-> TRUE]

\* LogicComponent.stop (no safe outputs configured)
stop(this) == [this EXCEPT !.status = "stopped"]

\* LogicComponent.execute, the evaluation at time now: the set of s
evaluate(s, now) ==
    UNION { { [t EXCEPT !.self.last_evaluation_time = Some(now)]
              : t \in execute_logic([s EXCEPT !.self = e], now) }
            : e \in evaluate_conditions(s.self, now) }

\* Variant: execute() makes no test of the status
execute_in_any_status(s, now) ==
    IF \/ s.self.last_evaluation_time = None
       \/ now - s.self.last_evaluation_time[1] >= evaluation_interval
    THEN { [s |-> t, ret |-> TRUE] : t \in evaluate(s, now) }
    ELSE { [s |-> s, ret |-> TRUE] }

\* LogicComponent.execute at time now: the set of [s, ret], ret being the
\* "success" of the result
execute(s, now) ==
    IF s.self.status # "running" THEN { [s |-> s, ret |-> FALSE] }
    ELSE IF \/ s.self.last_evaluation_time = None
            \/ now - s.self.last_evaluation_time[1] >= evaluation_interval
    THEN { [s |-> t, ret |-> TRUE] : t \in evaluate(s, now) }
    ELSE { [s |-> s, ret |-> TRUE] }

\* ProtocolComponent.connect: the result of connect_async(), False when it
\* raises
protocol_connect(outcome) == IF outcome = "raises" THEN FALSE ELSE outcome = "True"

\* ProtocolComponent.start on a component with the fields `this` (status,
\* connected) whose connect_async() ends as outcome: [self, ret]
protocol_start(this, outcome) ==
    IF this.status # "initialized"
    THEN [self |-> [this EXCEPT !.status = "error"], ret |-> FALSE]
    ELSE IF ~protocol_connect(outcome)
    THEN [self |-> [this EXCEPT !.status = "error"], ret |-> FALSE]
    ELSE [self |-> [this EXCEPT !.status = "running", !.connected = TRUE], ret |-> TRUE]

\* BaseKoiosComponent._validate_state_transition: the valid_transitions table
\* and the test made on it (no method of the component calls it)
valid_transitions(current) ==
    CASE current = "stopped" -> {"initializing"}
      [] current = "initializing" -> {"initialized", "error"}
      [] current = "initialized" -> {"starting", "stopped"}
      [] current = "starting" -> {"running", "error"}
      [] current = "running" -> {"stopping", "error"}
      [] current = "stopping" -> {"stopped", "error"}
      [] current = "failed" -> {"stopped"}
      [] current = "error" -> {"stopped"}
      [] OTHER -> {}

validate_state_transition(current, target_status) ==
    target_status \in valid_transitions(current)

\* The statuses LogicComponent.initialize / start / stop / execute pass to
\* _set_status, in order, when called on `this` (execute_logic and
\* evaluate_conditions of the component raise nothing, so execute sets none)
status_changes(name, this) ==
    CASE name = "initialize" -> << "initializing", "initialized" >>
      [] name = "start" -> IF this.status # "initialized" THEN << "error" >>
                           ELSE << "starting", "running" >>
      [] name = "stop" -> << "stopping", "stopped" >>
      [] OTHER -> << >>

\* ------------------------------------------------------------------ state
VARIABLES
    self,       \* the PromassProMagComponent's fields
    enip,       \* the EnipClient (of the component's _device, if any)
    op,         \* the operation that ran last
    exc,        \* class of the exception it raised, "none" if it returned
    why,        \* where that exception was raised, "ok" if it returned
    ret,        \* what it returned
    trace,      \* the attempts and sleeps of its connect loop
    read,       \* how its device read ended
    write,      \* how its reset_totalizer write ended
    args        \* the peer's bytes and the arguments of a call made with
                \* chosen arguments (None otherwise)

vars == << self, enip, op, exc, why, ret, trace, read, write, args >>

compVars == << self, trace, read, write >>

Init ==
    /\ self = Component
    /\ enip = EnipClient
    /\ op = "init"
    /\ exc = "none"
    /\ why = "ok"
    /\ ret = << >>
    /\ trace = << >>
    /\ read = "none"
    /\ write = "none"
    /\ args = None

\* A method call on the client: its effect r and the call's name
Called(name, r) ==
    /\ enip' = r.c
    /\ op' = name
    /\ exc' = r.exc
    /\ why' = r.why
    /\ ret' = r.ret
    /\ UNCHANGED compVars
    /\ UNCHANGED args

\* ------------------------------------- operations on one EnipClient object
\* What connect() can meet: the TCP connection fails, or it succeeds and
\* the RegisterSession exchange ends as x
ConnectInputs ==
    { Attempt(FALSE, NoReply) } \cup { Attempt(TRUE, x) : x \in RegReplies \cup Failures }

\* connect(); with a socket already open it returns before any input is
\* read
EnipConnect ==
    \E a \in IF enip.sock # None THEN { Attempt(TRUE, NoReply) } ELSE ConnectInputs :
        Called("connect", connect(Fresh(enip), a.tcp_ok, a.x))

EnipClose ==
    \E x \in PlainReplies \cup Failures :
        Called("close", close(Fresh(enip), x))

EnipSendRRData ==
    \E x \in ReadReplies \cup Failures :
        Called("send_rr_data",
               send_rr_data(Fresh(enip), cip_request(GET_ATTRIBUTE_SINGLE, << 32, 4 >>, << >>), x))

EnipListIdentity ==
    \E x \in PlainReplies \cup Failures :
        Called("list_identity", list_identity(Fresh(enip), x))

NextEnip == EnipConnect \/ EnipClose \/ EnipSendRRData \/ EnipListIdentity

SpecEnip == Init /\ [][NextEnip]_vars

\* --------------------------------------------- operations of the component
\* A component operation that ran to s and returned r; the counters stay
\* within the bounds
Ran(name, s, r) ==
    /\ s.self.read_error_count <= MaxCount
    /\ s.self.total_reads <= MaxCount
    /\ s.self.connection_error_count <= MaxConnErr + s.self.connection_retry_count
    /\ self' = s.self
    /\ enip' = s.enip
    /\ trace' = s.trace
    /\ read' = s.read
    /\ write' = s.write
    /\ op' = name
    /\ exc' = "none"
    /\ why' = "ok"
    /\ ret' = r
    /\ UNCHANGED args

\* time.time() when the operation runs: not before the last read
Times == IF self.last_read_time = None THEN 0 .. MaxClock
         ELSE self.last_read_time[1] .. MaxClock

ConnectDevice ==
    \E r \in connect_device(Entered(self, enip)) : Ran("_connect_device", r.s, r.ret)

DisconnectDevice ==
    \E s \in disconnect_device(Entered(self, enip)) : Ran("_disconnect_device", s, None)

ExecuteLogic ==
    \E now \in Times :
        \E s \in execute_logic(Entered(self, enip), now) : Ran("execute_logic", s, None)

\* LogicComponent.set_input('reset_totalizer', v) by the framework
SetInput ==
    /\ \E v \in BOOLEAN : self' = [self EXCEPT !.inputs.reset_totalizer = v]
    /\ op' = "set_input"
    /\ exc' = "none"
    /\ why' = "ok"
    /\ ret' = None
    /\ UNCHANGED << enip, trace, read, write, args >>

Next == ConnectDevice \/ DisconnectDevice \/ ExecuteLogic \/ SetInput

Spec == Init /\ [][Next]_vars

\* ------------------------------------ the connect loop for any retry count
\* The component constructed with parameter connection_retry_count = n
\* (min_value 0), then started and stopped any number of times
InitRetry ==
    /\ \E n \in 0 .. MaxRetry : self = [Component EXCEPT !.connection_retry_count = n]
    /\ enip = EnipClient
    /\ op = "init"
    /\ exc = "none"
    /\ why = "ok"
    /\ ret = << >>
    /\ trace = << >>
    /\ read = "none"
    /\ write = "none"
    /\ args = None

NextRetry == ConnectDevice \/ DisconnectDevice

SpecRetry == InitRetry /\ [][NextRetry]_vars

\* ------------------------------------- execute_logic called again and again
\* A component operation that ran at time `now` to s and returned r;
\* failures are counted up to MaxCount + 1, so that a failure can follow a
\* failure
RanWith(name, now, s, r) ==
    /\ s.self.read_error_count <= MaxCount + 1
    /\ s.self.total_reads <= MaxCount
    /\ s.self.connection_error_count <= MaxConnErr + s.self.connection_retry_count
    /\ self' = s.self
    /\ enip' = s.enip
    /\ trace' = s.trace
    /\ read' = s.read
    /\ write' = s.write
    /\ op' = name
    /\ exc' = "none"
    /\ why' = "ok"
    /\ ret' = r
    /\ args' = [now |-> now]

RanAt(name, now, s) == RanWith(name, now, s, None)

\* time.time() at a call: not before the time of the call before it
TimesAfter == (IF args = None THEN 0 ELSE args.now) .. MaxClock

\* execute_logic() called by the framework at time now
ExecuteLogicAt ==
    \E now \in TimesAfter :
        \E s \in execute_logic(Entered(self, enip), now) : RanAt("execute_logic", now, s)

NextSched == ExecuteLogicAt \/ SetInput

SpecSched == Init /\ [][NextSched]_vars

\* ------------------------------------ the component run by the framework
\* initialize(), start(), stop() and execute() called in any order by the
\* framework
Initialize ==
    \E now \in TimesAfter :
        RanWith("initialize", now, [Entered(self, enip) EXCEPT !.self = initialize(self)], TRUE)

Start ==
    \E now \in TimesAfter :
        RanWith("start", now, [Entered(self, enip) EXCEPT !.self = start(self).self],
                start(self).ret)

Stop ==
    \E now \in TimesAfter :
        RanWith("stop", now, [Entered(self, enip) EXCEPT !.self = stop(self)], TRUE)

Execute ==
    \E now \in TimesAfter :
        \E r \in execute(Entered(self, enip), now) : RanWith("execute", now, r.s, r.ret)

NextRun == Initialize \/ Start \/ Stop \/ Execute \/ SetInput

SpecRun == Init /\ [][NextRun]_vars

\* ------------------------------------------- recovery of the connection
\* execute_logic() is called again and again while the device misbehaves in
\* any way; from some point on (Heal) the device accepts connections and
\* answers every request correctly, and time goes on. args holds the clock,
\* whether that point has passed and, while a call to a healthy device is
\* running, the outcomes it can have.
Healed == args # None /\ args.healed
Calling == Healed /\ args.calling

\* The last clock value of the model: one tick after the last fault
LastTick == MaxClock + 1

\* The outcomes of a call in which every connection attempt was accepted and
\* every request answered correctly
AnsweredCorrectly(s) ==
    /\ \A i \in DOMAIN s.trace : s.trace[i].t # "fail"
    /\ s.read \in {"none", "ok"}
    /\ s.write \in {"none", "ok"}

\* execute_logic() with a device that may fail in any way (up to MaxCount
\* reads, failed or not, and the failed attempts of one connect)
FaultyExecute ==
    /\ ~Healed
    /\ \E now \in TimesAfter :
           \E s \in execute_logic(Entered(self, enip), now) :
               /\ s.self.successful_reads + s.self.failed_reads <= MaxCount
               /\ s.self.connection_error_count <= MaxConnErr + s.self.connection_retry_count
               /\ self' = s.self /\ enip' = s.enip
               /\ trace' = s.trace /\ read' = s.read /\ write' = s.write
               /\ op' = "execute_logic" /\ exc' = "none" /\ why' = "ok" /\ ret' = None
               /\ args' = [now |-> now, healed |-> FALSE, calling |-> FALSE, outcomes |-> {}]

\* LogicComponent.set_input('reset_totalizer', v) by the framework, while the
\* device misbehaves (a command given then may still be pending later)
CommandReset == ~Healed /\ SetInput

\* From here on the device accepts connections and answers correctly
Heal ==
    /\ ~Healed
    /\ args' = [now |-> IF args = None THEN 0 ELSE args.now, healed |-> TRUE,
                calling |-> FALSE, outcomes |-> {}]
    /\ op' = "heal"
    /\ UNCHANGED << self, enip, exc, why, ret, trace, read, write >>

\* time.time() goes on
Tick ==
    /\ Healed
    /\ args.now < LastTick
    /\ args' = [args EXCEPT !.now = @ + 1]
    /\ UNCHANGED << self, enip, op, exc, why, ret, trace, read, write >>

\* execute_logic() is called with a device that answers correctly
Call ==
    /\ Healed
    /\ ~args.calling
    /\ args' = [args EXCEPT !.calling = TRUE,
                            !.outcomes = { s \in execute_logic(Entered(self, enip), args.now) :
                                               AnsweredCorrectly(s) }]
    /\ op' = "call"
    /\ UNCHANGED << self, enip, exc, why, ret, trace, read, write >>

\* and returns
Return ==
    /\ Calling
    /\ \E s \in args.outcomes :
           /\ self' = s.self /\ enip' = s.enip
           /\ trace' = s.trace /\ read' = s.read /\ write' = s.write
    /\ op' = "execute_logic" /\ exc' = "none" /\ why' = "ok" /\ ret' = None
    /\ args' = [args EXCEPT !.calling = FALSE, !.outcomes = {}]

NextRecover == FaultyExecute \/ CommandReset \/ Heal \/ Tick \/ Call \/ Return

\* Time keeps going on and a call to a healthy device returns
SpecRecover ==
    Init /\ [][NextRecover]_vars /\ WF_vars(Tick) /\ WF_vars(Return)

\* ----------------- calls on a connected client with chosen arguments/bytes
\* A call made with arguments and peer bytes a
CalledWith(name, a, r) ==
    /\ enip' = r.c
    /\ op' = name
    /\ exc' = r.exc
    /\ why' = r.why
    /\ ret' = r.ret
    /\ args' = a
    /\ UNCHANGED compVars

\* Response headers announcing up to MaxPayload payload bytes, with status
\* 0 or 1
ResponseHeaders ==
    { pack_header(ENIP_CMD_LIST_IDENTITY, n, 0, st, << 0, 0, 0, 0, 0, 0, 0, 0 >>, 0)
      : n \in 0 .. MaxPayload, st \in {0, 1} }

\* What the peer sends: a header cut short, or a header followed by any
\* payload of up to MaxPayload bytes (fewer, as many or more bytes than the
\* header announces)
PeerStreams ==
    { Slice(h, 0, k) : h \in ResponseHeaders, k \in {0, 10, 23} }
    \cup { h \o d : h \in ResponseHeaders, d \in SeqsUpTo(Bytes, MaxPayload) }

Peers == { Peer(st, eof) : st \in PeerStreams, eof \in {"close", "stall"} }

\* The client after a successful connect()
InitCalls ==
    /\ self = Component
    /\ enip = connect(EnipClient, TRUE, GoodRegister).c
    /\ op = "connect"
    /\ exc = "none"
    /\ why = "ok"
    /\ ret = << >>
    /\ trace = << >>
    /\ read = "none"
    /\ write = "none"
    /\ args = None

\* _send_enip with the response read from the peer's bytes
SendEnip ==
    \E peer \in Peers :
        CalledWith("_send_enip", [peer |-> peer],
                   send_enip(Fresh(enip), ENIP_CMD_LIST_IDENTITY, << >>, recv_response(peer)))

\* The items of a SendRRData response, each << type id, data >> (a null
\* address item, or a 0x00B2 item carrying up to MaxPayload bytes), and their
\* CPF encoding
CpfItemChoices ==
    { << 0, << >> >> } \cup { << 178, d >> : d \in SeqsUpTo(Bytes, MaxPayload) }
CpfItemSeqs == SeqsUpTo(CpfItemChoices, MaxItems)

RECURSIVE CpfItems(_)
CpfItems(items) ==
    IF items = << >> THEN << >>
    ELSE CpfItem(items[1][1], items[1][2]) \o CpfItems(Tail(items))

\* A zero-status SendRRData response whose CPF holds `items`
CpfReply(items) == Reply(0, CpfPayload(Len(items), CpfItems(items)))

\* send_rr_data(cip_payload) on the connected client, answered with a
\* zero-status response whose CPF holds the chosen items
SendRRData ==
    \E items \in CpfItemSeqs, cip_payload \in {<< >>, << 1 >>} :
        CalledWith("send_rr_data", [items |-> items, cip_payload |-> cip_payload],
                   send_rr_data(Fresh(enip), cip_payload, CpfReply(items)))

\* The CIP responses of the device: a 4-byte header (reply service,
\* reserved, general status, additional status word count) followed by any
\* bytes, and responses cut short of the header
CipResponses ==
    { << sv, 0, st, k >> \o t :
          sv \in {ReplyService(GET_ATTRIBUTE_SINGLE), ReplyService(SET_ATTRIBUTE_SINGLE)},
          st \in {0, 5}, k \in 0 .. MaxAddWords, t \in SeqsUpTo(Bytes, MaxCipTail) }
    \cup { << >>, << ReplyService(GET_ATTRIBUTE_SINGLE) >>,
           << ReplyService(GET_ATTRIBUTE_SINGLE), 0, 5 >>,
           << ReplyService(SET_ATTRIBUTE_SINGLE), 0, 0 >> }

\* The class, instance and attribute ids a caller passes
PathIds == { << 4, 100, 3 >>, << 4, 300, 3 >>, << 256, 1, 65535 >>,
             << 65536, 1, 3 >>, << 4, 0 - 1, 3 >>, << 4, 100, 65536 >> }

\* get_attribute_single(class_id, instance_id, attribute_id) on the connected
\* client, the device answering with the CIP response cip
GetAttributeSingle ==
    \E ids \in PathIds, cip \in CipResponses :
        CalledWith("get_attribute_single",
                   [class_id |-> ids[1], instance_id |-> ids[2], attribute_id |-> ids[3],
                    value |-> << >>, cip |-> cip],
                   get_attribute_single(Fresh(enip), ids[1], ids[2], ids[3], RRReply(cip)))

\* set_attribute_single(class_id, instance_id, attribute_id, value) on the
\* connected client, the device answering with the CIP response cip
SetAttributeSingle ==
    \E ids \in PathIds, value \in {<< >>, << 1, 0 >>}, cip \in CipResponses :
        CalledWith("set_attribute_single",
                   [class_id |-> ids[1], instance_id |-> ids[2], attribute_id |-> ids[3],
                    value |-> value, cip |-> cip],
                   set_attribute_single(Fresh(enip), ids[1], ids[2], ids[3], value,
                                        RRReply(cip)))

\* The ids of a CIPPath: absent, or a value in or just outside [0, 0xFFFF]
IdChoices == {None} \cup { Some(v) : v \in {-1, 0, 4, 255, 256, 300, 65535, 65536} }

\* CIPPath(class_id, instance_id, attribute_id).encode(); ret is the EPATH
EncodePath ==
    \E class_id \in IdChoices, instance_id \in IdChoices, attribute_id \in IdChoices :
        CalledWith("encode",
                   [class_id |-> class_id, instance_id |-> instance_id,
                    attribute_id |-> attribute_id],
                   [c |-> enip, exc |-> encode(class_id, instance_id, attribute_id).exc,
                    why |-> "encode",
                    ret |-> encode(class_id, instance_id, attribute_id).bytes])

\* Input assembly data: the assemblies cut short or followed by more bytes
AssemblyData ==
    { Slice(a, 0, n) : a \in {AssemblyA, AssemblyB}, n \in 0 .. 16 }
    \cup { a \o t : a \in {AssemblyA, AssemblyB}, t \in SeqsUpTo(Bytes, MaxPayload) }

\* PromassAssemblies.parse_input_assembly(data); ret is the value record
ParseInputAssembly ==
    \E data \in AssemblyData :
        CalledWith("parse_input_assembly", [data |-> data],
                   [c |-> enip, exc |-> parse_input_assembly(data).exc,
                    why |-> "parse", ret |-> parse_input_assembly(data).values])

\* Process values below, at and above the limits (-1.0, 0.0, 1000.0, 1001.0
\* and a NaN for the flows; -1.0, 0.0, 2000.0, 2001.0 for the density; -51.0,
\* -50.0, 200.0, 201.0 for the temperature)
FlowSamples == { << 0, 0, 128, 191 >>, Zero, << 0, 0, 122, 68 >>, << 0, 64, 122, 68 >>,
                 << 0, 0, 192, 127 >> }
DensitySamples == { << 0, 0, 128, 191 >>, Zero, << 0, 0, 250, 68 >>, << 0, 32, 250, 68 >> }
TemperatureSamples == { << 0, 0, 76, 194 >>, << 0, 0, 72, 194 >>, << 0, 0, 72, 67 >>,
                        << 0, 0, 73, 67 >> }

\* Components about to evaluate their conditions: any sampled values, the
\* alarms all clear or all set, before or after a first rate of change check
\* (made at time 0 with flows 0.0)
Evaluating ==
    { [Component EXCEPT !.mass_flow = m, !.volume_flow = v, !.density = d,
                        !.temperature = t, !.alarms = [a \in AlarmNames |-> set],
                        !.prev_read_time = p]
      : m \in FlowSamples, v \in FlowSamples, d \in DensitySamples,
        t \in TemperatureSamples, set \in BOOLEAN, p \in {None, Some(0)} }

\* PromassProMagComponent.evaluate_conditions() at time 1 on a component
\* `this`; ret is the component after it
EvaluateConditions ==
    \E this \in Evaluating :
        \E after \in evaluate_conditions(this, 1) :
            CalledWith("evaluate_conditions", [this |-> this],
                       [c |-> enip, exc |-> "none", why |-> "ok", ret |-> after])

\* PromassDevice.reset_totalizer() on the connected device, the exchange
\* ending as x
ResetTotalizer ==
    \E x \in WriteReplies \cup Failures :
        CalledWith("reset_totalizer", [x |-> x], reset_totalizer(Fresh(enip), x))

\* The statuses a component has between two calls of the framework
RestingStatuses == {"stopped", "initialized", "running", "error"}

\* start() called on a LogicComponent or a ProtocolComponent (not connected)
\* in any of these statuses; ret is the component after the call and the
\* value returned
StartFrom ==
    \E status \in RestingStatuses :
        \/ CalledWith("start", [component |-> "LogicComponent", status |-> status],
                      Ok(enip, start([Component EXCEPT !.status = status])))
        \/ \E outcome \in {"True", "False", "raises"} :
               CalledWith("start", [component |-> "ProtocolComponent", status |-> status,
                                    connect_async |-> outcome],
                          Ok(enip, protocol_start([status |-> status, connected |-> FALSE],
                                                  outcome)))

\* One call is made on the connected client (these calls leave the socket
\* and the session handle as they are)
NextCalls ==
    /\ args = None
    /\ \/ SendEnip \/ SendRRData \/ GetAttributeSingle \/ SetAttributeSingle
       \/ EncodePath \/ ParseInputAssembly \/ ResetTotalizer \/ EvaluateConditions
       \/ StartFrom

SpecCalls == InitCalls /\ [][NextCalls]_vars

\* ------------------------------- _recv_exact, one recv() call at a time
\* The byte counts one `self.sock.recv(n - len(buf))` may return while the
\* peer still has bytes to deliver: at least one byte, at most the bytes
\* asked for and at most the bytes left in the stream
recv_sizes_asks_n(buf, rest, n) == 1 .. Min(n, Len(rest.stream))

recv_sizes(buf, rest, n) == 1 .. Min(n - Len(buf), Len(rest.stream))

\* EnipClient._recv_exact, `buf += chunk` for a chunk of k bytes
recv_chunk(buf, rest, k) ==
    [buf |-> buf \o Slice(rest.stream, 0, k),
     rest |-> Peer(SliceFrom(rest.stream, k), rest.eof)]

\* The streams the peer delivers (up to one byte more than the longest
\* read) and the byte counts asked for
RecvStreams == SeqsUpTo(Bytes, MaxRecv + 1)
RecvCounts == 0 .. MaxRecv

\* The loop of a _recv_exact call is running (why = "loop"), with ret.buf
\* the bytes collected and ret.rest what the peer still delivers
Receiving == op = "_recv_exact" /\ why = "loop"

\* _recv_exact(n) is called: `buf = b""`
RecvExact ==
    /\ args = None
    /\ \E n \in RecvCounts, stream \in RecvStreams, eof \in {"close", "stall"} :
           /\ args' = [n |-> n, peer |-> Peer(stream, eof)]
           /\ ret' = [buf |-> << >>, rest |-> Peer(stream, eof)]
    /\ op' = "_recv_exact"
    /\ why' = "loop"
    /\ exc' = "none"
    /\ UNCHANGED << enip, compVars >>

\* One pass of the loop in which recv returns bytes
RecvChunk ==
    /\ Receiving
    /\ Len(ret.buf) < args.n
    /\ \E k \in recv_sizes(ret.buf, ret.rest, args.n) :
           ret' = recv_chunk(ret.buf, ret.rest, k)
    /\ UNCHANGED << enip, op, exc, why, args, compVars >>

\* One pass of the loop in which the peer has nothing more to deliver: recv
\* returns b"" after a close (EnipError is raised) or raises socket.timeout
RecvNothing ==
    /\ Receiving
    /\ Len(ret.buf) < args.n
    /\ ret.rest.stream = << >>
    /\ exc' = IF ret.rest.eof = "close" THEN "EnipError" ELSE "OSError"
    /\ why' = IF ret.rest.eof = "close" THEN "closed" ELSE "timeout"
    /\ UNCHANGED << enip, op, ret, args, compVars >>

\* `while len(buf) < n` ends and buf is returned
ReturnBuf ==
    /\ Receiving
    /\ Len(ret.buf) >= args.n
    /\ why' = "ok"
    /\ UNCHANGED << enip, op, exc, ret, args, compVars >>

NextRecv == RecvExact \/ RecvChunk \/ RecvNothing \/ ReturnBuf

\* The thread inside _recv_exact runs on: a recv() on the socket (which has
\* a timeout) returns or raises, and the loop test is made
SpecRecv ==
    /\ InitCalls /\ [][NextRecv]_vars
    /\ WF_vars(RecvChunk) /\ WF_vars(RecvNothing) /\ WF_vars(ReturnBuf)

\* ------------------------- retry_on_failure, one attempt or sleep at a time
\* What one call of the wrapped method does: it returns a value, raises an
\* exception of a class listed in `exceptions`, or raises another exception
Outcomes ==
    { [kind |-> "returns", v |-> v] : v \in {"r1", "r2"} }
    \cup { [kind |-> "listed", v |-> v] : v \in {"ConnectionError", "TimeoutError"} }
    \cup { [kind |-> "other", v |-> "KeyError"] }

\* Variant: every exception is retried
wrapper_try_retries_all(w, max_retries, outcome) ==
    IF outcome.kind = "returns"
    THEN [why |-> "returned", exc |-> "none", w |-> [w EXCEPT !.value = Some(outcome.v)]]
    ELSE IF w.attempt < max_retries
    THEN [why |-> "sleep", exc |-> "none",
          w |-> [w EXCEPT !.last_exception = Some(outcome.v)]]
    ELSE [why |-> "raised", exc |-> outcome.v,
          w |-> [w EXCEPT !.last_exception = Some(outcome.v)]]

\* The wrapper of retry_on_failure, the try statement of one pass of its loop
\* when func ends as outcome; w holds attempt, current_delay, last_exception
\* and the value returned
wrapper_try(w, max_retries, outcome) ==
    CASE outcome.kind = "returns" ->
             [why |-> "returned", exc |-> "none", w |-> [w EXCEPT !.value = Some(outcome.v)]]
      [] outcome.kind = "listed" ->
             IF w.attempt < max_retries
             THEN [why |-> "sleep", exc |-> "none",
                   w |-> [w EXCEPT !.last_exception = Some(outcome.v)]]
             ELSE [why |-> "raised", exc |-> outcome.v,
                   w |-> [w EXCEPT !.last_exception = Some(outcome.v)]]
      [] OTHER -> [why |-> "raised", exc |-> outcome.v, w |-> w]

\* The wrapped method is called with max_retries >= 0, delay >= 0 and
\* backoff_factor >= 0: `last_exception = None; current_delay = delay`
Wrapper ==
    /\ args = None
    /\ \E max_retries \in 0 .. MaxWrapRetries, delay \in 0 .. MaxDelay,
          backoff_factor \in 0 .. MaxFactor :
           /\ args' = [max_retries |-> max_retries, delay |-> delay,
                       backoff_factor |-> backoff_factor]
           /\ ret' = [attempt |-> 0, current_delay |-> delay,
                      last_exception |-> None, value |-> None]
    /\ op' = "retry_on_failure"
    /\ why' = "loop"
    /\ exc' = "none"
    /\ trace' = << >>
    /\ UNCHANGED << enip, self, read, write >>

\* One pass of `for attempt in range(max_retries + 1)` up to the sleep: func
\* is called and returns or raises
CallFunc ==
    /\ op = "retry_on_failure" /\ why = "loop"
    /\ ret.attempt <= args.max_retries
    /\ \E outcome \in Outcomes :
           /\ trace' = Append(trace, [t |-> "call", kind |-> outcome.kind, v |-> outcome.v])
           /\ why' = wrapper_try(ret, args.max_retries, outcome).why
           /\ exc' = wrapper_try(ret, args.max_retries, outcome).exc
           /\ ret' = wrapper_try(ret, args.max_retries, outcome).w
    /\ UNCHANGED << enip, self, read, write, op, args >>

\* `time.sleep(current_delay); current_delay *= backoff_factor` and the next
\* value of attempt
Sleep ==
    /\ op = "retry_on_failure" /\ why = "sleep"
    /\ trace' = Append(trace, [t |-> "sleep", d |-> ret.current_delay])
    /\ ret' = [ret EXCEPT !.current_delay = @ * args.backoff_factor, !.attempt = @ + 1]
    /\ why' = "loop"
    /\ UNCHANGED << enip, self, read, write, op, exc, args >>

NextWrap == Wrapper \/ CallFunc \/ Sleep

\* The thread inside the wrapper runs on: func returns or raises, and
\* time.sleep returns
SpecWrap ==
    /\ InitCalls /\ [][NextWrap]_vars
    /\ WF_vars(CallFunc) /\ WF_vars(Sleep)

\* ================================================================ claims
HasEv(w, t) == \E i \in DOMAIN w : w[i].t = t

\* An UnregisterSession frame was written and its exchange failed
UnregisterFailed(w) ==
    \E i \in 1 .. Len(w) - 1 :
        /\ w[i].t = "W"
        /\ w[i].command = ENIP_CMD_UNREGISTER_SESSION
        /\ w[i + 1].t = "F"

Unregistered == enip.sock = None /\ enip.session_handle = 0

Disconnected ==
    /\ ~self.connected
    /\ ~self.device
    /\ self.device_status = "DISCONNECTED"
    /\ Unregistered

\* C1: the session is never partially valid: the socket is present if and
\* only if the session handle is non-zero
C1_SessionNeverPartial ==
    \/ (enip.sock = None /\ enip.session_handle = 0)
    \/ (enip.sock # None /\ enip.session_handle # 0)

\* C2: when connect() fails after the TCP socket was opened, on return the
\* socket has been closed and the session is Unregistered
C2_FailedConnectClosesSocket ==
    (op = "connect" /\ exc # "none" /\ HasEv(enip.wire, "open")) => Unregistered

\* C3: when connect() returns without raising, the session is Registered:
\* the socket is open, a RegisterSession exchange has succeeded on it, and
\* session_handle is non-zero and is the little-endian u32 of the first 4
\* bytes of that response's payload
C3_ConnectReturnsRegistered ==
    (op = "connect" /\ exc = "none") =>
        /\ enip.sock # None
        /\ enip.reg
        /\ Len(enip.regData) >= 4
        /\ enip.session_handle = UnpackI(SubSeq(enip.regData, 1, 4))
        /\ enip.session_handle # 0

\* C10: when the UnregisterSession exchange of close() fails with a
\* transport error, close() still closes the socket, resets the session to
\* Unregistered and does not propagate the error
C10_CloseSwallowsUnregisterError ==
    (op = "close" /\ UnregisterFailed(enip.wire)) =>
        /\ HasEv(enip.wire, "sock_close")
        /\ Unregistered
        /\ exc = "none"

\* Failures of a device read or write that are transport errors or
\* malformed responses, and the decode error of a short assembly
IOFailures == TransportWhys \cup MalformedWhys \cup {"assembly_too_short"}

\* C4: a device read that fails for an I/O reason leaves the component
\* Disconnected when _read_device_data returns; "READ_ERROR" is never the
\* device_status between two operations; the component becomes connected
\* again only by a connect attempt that succeeds
C4_FailedReadDisconnects ==
    /\ [](/\ read \in IOFailures => Disconnected
          /\ self.device_status # "READ_ERROR")
    /\ [][(~self.connected /\ self'.connected) => HasEv(trace', "ok")]_vars

C4_Witness ==
    /\ op = "execute_logic"
    /\ read = "timeout"
    /\ Disconnected
    /\ UnregisterFailed(enip.wire)

\* C5: a reset_totalizer write that fails with a transport error or a
\* protocol violation drops the component to Disconnected before
\* execute_logic returns, and no frame is written on a session after such a
\* failure
C5_FailedWriteDisconnects ==
    /\ write \in TransportWhys \cup MalformedWhys => Disconnected
    /\ ~enip.reused

\* C6: a read or write answered by a well-formed CIP response with non-zero
\* general status leaves the session Registered and the component Connected:
\* the socket is not closed and no UnregisterSession is sent
C6_CipRejectionKeepsSession ==
    (read = "general_status" \/ write = "general_status") =>
        /\ self.connected
        /\ self.device
        /\ self.device_status = "CONNECTED"
        /\ enip.sock # None
        /\ ~HasEv(enip.wire, "sock_close")
        /\ \A i \in DOMAIN enip.wire :
               enip.wire[i].t = "W" => enip.wire[i].command # ENIP_CMD_UNREGISTER_SESSION

Count(tr, t) == Cardinality({ i \in DOMAIN tr : tr[i].t = t })

\* The events of one _connect_device call: attempts that fail, each but the
\* last one followed by one sleep, ended by the first attempt that succeeds
\* or by the failure of attempt connection_retry_count + 1
TraceShape(tr) ==
    /\ \A i \in DOMAIN tr :
        /\ i % 3 = 1 => tr[i].t = "attempt" /\ i < Len(tr)
        /\ i % 3 = 2 => tr[i].t \in {"ok", "fail"}
        /\ i % 3 = 0 => tr[i].t = "sleep" /\ i < Len(tr)
        /\ tr[i].t = "ok" => i = Len(tr)
        /\ (tr[i].t = "fail" /\ i < Len(tr)) => tr[i + 1].t = "sleep"
    /\ Count(tr, "attempt") <= self.connection_retry_count + 1
    /\ (tr # << >> /\ tr[Len(tr)].t = "fail") => Count(tr, "fail") = self.connection_retry_count + 1

\* C7: _connect_device, when not already connected, makes between one and
\* self.connection_retry_count + 1 attempts, stops at the first success, sleeps
\* once between two attempts and never after the last, returns False with
\* status "CONNECTION_FAILED" only after self.connection_retry_count + 1 failed
\* attempts, and adds the number of failed attempts to
\* connection_error_count
C7_BoundedConnectRetry ==
    /\ [](/\ TraceShape(trace)
          /\ (op = "_connect_device" /\ trace # << >>) =>
                /\ ret = (trace[Len(trace)].t = "ok")
                /\ ret => (self.connected /\ self.device_status = "CONNECTED")
                /\ ~ret => (~self.connected /\ self.device_status = "CONNECTION_FAILED"))
    /\ [][/\ (op' = "_connect_device" /\ ~(self.connected /\ self.device))
                => Count(trace', "attempt") >= 1
          /\ op' # "set_input"
                => self'.connection_error_count
                       = self.connection_error_count + Count(trace', "fail")]_vars

C7_Witness ==
    /\ op = "_connect_device"
    /\ self.connection_retry_count >= 2
    /\ ret = FALSE
    /\ Count(trace, "fail") = self.connection_retry_count + 1
    /\ Count(trace, "sleep") = self.connection_retry_count
    /\ self.connection_error_count = self.connection_retry_count + 1

\* C8: no partial state crosses connect attempts: no attempt starts while
\* the socket of an earlier failed attempt is still open, and when
\* _connect_device has returned False no socket is open and the session is
\* not half-set
C8_NoPartialStateAcrossAttempts ==
    /\ \A i \in DOMAIN trace : ~trace[i].stale
    /\ self.device_status = "CONNECTION_FAILED" => Unregistered

\* Each written frame is directly followed by the complete read of its
\* response or by the failure of the exchange, and nothing is read otherwise
WireAlternates(w) ==
    \A i \in DOMAIN w :
        /\ w[i].t = "W" => (i < Len(w) /\ w[i + 1].t \in {"R", "F"})
        /\ w[i].t \in {"R", "F"} => (i > 1 /\ w[i - 1].t = "W")

\* C9: at most one transaction is in flight per session: request writes and
\* response reads alternate, and no frame is written while an earlier
\* request has neither had its response read nor failed
C9_OneTransactionInFlight == WireAlternates(enip.wire)

C9_Witness ==
    /\ op = "execute_logic"
    /\ read = "ok"
    /\ write = "ok"
    /\ Count(enip.wire, "W") = 2
    /\ Count(enip.wire, "R") = 2

\* The session is Registered: the socket is open and a RegisterSession
\* exchange on it has assigned a non-zero handle
Registered == enip.sock # None /\ enip.reg /\ enip.session_handle # 0

\* C11: connect() on a Registered session opens no socket, writes no frame,
\* returns without raising and leaves the socket and session_handle
\* unchanged
C11_ConnectIdempotent ==
    [][(op' = "connect" /\ Registered) =>
          /\ enip'.wire = << >>
          /\ exc' = "none"
          /\ enip'.sock = enip.sock
          /\ enip'.session_handle = enip.session_handle
          /\ enip'.reg]_vars

C11_Witness ==
    /\ op = "connect"
    /\ exc = "none"
    /\ enip.wire = << >>
    /\ Registered

\* The UnregisterSession frames among the events w
UnregisterFrames(w) ==
    { i \in DOMAIN w : w[i].t = "W" /\ w[i].command = ENIP_CMD_UNREGISTER_SESSION }

\* C12: after any close() the session is Unregistered; close() on an
\* Unregistered session writes no frame, raises nothing and changes nothing;
\* a close() writes at most one UnregisterSession frame, and only on a
\* session whose handle is set
C12_CloseIdempotent ==
    /\ [](op = "close" => Unregistered)
    /\ [][op' = "close" =>
            /\ Cardinality(UnregisterFrames(enip'.wire)) <= 1
            /\ UnregisterFrames(enip'.wire) # {} => enip.session_handle # 0
            /\ Unregistered =>
                  /\ enip'.wire = << >>
                  /\ exc' = "none"
                  /\ enip'.sock = None
                  /\ enip'.session_handle = 0]_vars

C12_Witness ==
    /\ op = "close"
    /\ exc = "none"
    /\ enip.wire = << >>
    /\ Unregistered

\* C13: when the peer closes the connection before the 24 header bytes, or
\* before the payload bytes announced by the header, have arrived,
\* _send_enip raises EnipError; when it returns, data is exactly the
\* announced number of bytes that follow the header
C13_ShortReadFails ==
    op = "_send_enip" =>
        /\ (args.peer.eof = "close" /\ Len(args.peer.stream) < 24) => exc = "EnipError"
        /\ (/\ args.peer.eof = "close"
            /\ Len(args.peer.stream) >= 24
            /\ Len(args.peer.stream) < 24 + UnpackH(Slice(args.peer.stream, 2, 4)))
               => exc = "EnipError"
        /\ exc = "none" =>
              /\ Len(args.peer.stream) >= 24
              /\ Len(ret.data) = UnpackH(Slice(args.peer.stream, 2, 4))
              /\ ret.data = Slice(args.peer.stream, 24, 24 + Len(ret.data))
              /\ ret.status = UnpackI(Slice(args.peer.stream, 8, 12))

C13_Witness ==
    /\ op = "_send_enip"
    /\ args.peer.eof = "close"
    /\ Len(args.peer.stream) = 10
    /\ exc = "EnipError"
    /\ why = "short_header"

\* The header bytes h precede the payload data of a frame written for
\* `command` by a client whose session handle is `handle`
HeaderWellFormed(h, command, data, handle) ==
    /\ Len(h) = 24
    /\ UnpackH(Slice(h, 0, 2)) = command
    /\ UnpackH(Slice(h, 2, 4)) = Len(data)
    /\ UnpackI(Slice(h, 4, 8)) = handle
    /\ UnpackI(Slice(h, 8, 12)) = 0
    /\ Slice(h, 12, 20) = << 0, 0, 0, 0, 0, 0, 0, 0 >>
    /\ UnpackI(Slice(h, 20, 24)) = 0

\* C14: every frame a call writes has a 24-byte header whose length field
\* is the byte length of the payload, whose session handle field is the
\* client's session_handle at the call (0 for the RegisterSession of
\* connect()), and whose status, sender context and options are zero
C14_FrameHeader ==
    [][\A i \in DOMAIN enip'.wire :
          enip'.wire[i].t = "W" =>
              /\ HeaderWellFormed(HeaderOf(enip'.wire[i]), enip'.wire[i].command,
                                  enip'.wire[i].data, enip.session_handle)
              /\ op' = "connect" =>
                    /\ enip'.wire[i].command = ENIP_CMD_REGISTER_SESSION
                    /\ enip'.wire[i].session_handle = 0]_vars

C14_Witness ==
    /\ op = "send_rr_data"
    /\ \E i \in DOMAIN enip.wire :
          /\ enip.wire[i].t = "W"
          /\ enip.wire[i].command = ENIP_CMD_SEND_RR_DATA
          /\ enip.wire[i].session_handle # 0
          /\ enip.wire[i].length = Len(enip.wire[i].data)
          /\ enip.wire[i].length > 0

\* C15: a zero-status response holding a null address item and one 0x00B2
\* item carrying P makes send_rr_data return exactly P, for every P; and
\* send_rr_data fails exactly when the response holds no 0x00B2 item
C15_CpfRoundTrip ==
    op = "send_rr_data" =>
        /\ \A P \in SeqsUpTo(Bytes, MaxPayload) :
               args.items = << << 0, << >> >>, << 178, P >> >> => (exc = "none" /\ ret = P)
        /\ exc # "none" <=> ~ \E i \in DOMAIN args.items : args.items[i][1] = 178

\* The service code of the request made by the call `op`
ServiceOf(name) ==
    IF name = "get_attribute_single" THEN GET_ATTRIBUTE_SINGLE ELSE SET_ATTRIBUTE_SINGLE

\* A get_attribute_single or set_attribute_single call, and one with every
\* id in [0, 0xFFFF]
AttributeCall == op \in {"get_attribute_single", "set_attribute_single"}
CipCall ==
    /\ AttributeCall
    /\ \A v \in {args.class_id, args.instance_id, args.attribute_id} : v \in 0 .. 65535

\* C16: a CIP response whose first byte is not service | 0x80, or that is
\* shorter than the 4-byte header, is reported with an error kind other than
\* the CIPError of a non-zero general status, whatever its status byte
C16_MismatchIsProtocolViolation ==
    (/\ CipCall
     /\ \/ Len(args.cip) < 4
        \/ args.cip[1] # ReplyService(ServiceOf(op)))
        => (exc # "none" /\ exc # "CIPError")

\* C17: a CIP response of at least 4 bytes with the matching reply service
\* and general status s # 0 fails with a CIPError carrying s and the k
\* declared additional status words, also when fewer than 2k bytes follow
C17_CipErrorPath ==
    (/\ CipCall
     /\ Len(args.cip) >= 4
     /\ args.cip[1] = ReplyService(ServiceOf(op))
     /\ args.cip[3] # 0)
        => /\ exc = "CIPError"
           /\ why = "general_status"
           /\ ret.gen_status = args.cip[3]
           /\ Len(ret.add_status) = args.cip[4]

\* C18: for a CIP response with the matching reply service, general status 0
\* and additional status word count k, get_attribute_single returns the
\* bytes from offset 4 + 2k on, and set_attribute_single returns nothing and
\* raises nothing whatever follows the header
C18_CipSuccessPath ==
    (/\ CipCall
     /\ Len(args.cip) >= 4
     /\ args.cip[1] = ReplyService(ServiceOf(op))
     /\ args.cip[3] = 0)
        => /\ exc = "none"
           /\ op = "get_attribute_single" => ret = SliceFrom(args.cip, 4 + 2 * args.cip[4])
           /\ op = "set_attribute_single" => ret = << >>

C18_Witness ==
    /\ op = "get_attribute_single"
    /\ exc = "none"
    /\ args.cip = << 142, 0, 0, 1, 0, 0, 1 >>
    /\ ret = << 1 >>

\* The segment the spec gives for an id: nothing when absent, [base, value]
\* below 256, [base + 1, 0, low byte, high byte] from 256 to 0xFFFF
Segment(base, id) ==
    IF id = None THEN << >>
    ELSE IF id[1] < 256 THEN << base, id[1] >>
    ELSE << base + 1, 0, id[1] % 256, id[1] \div 256 >>
InRange(id) == id = None \/ (id[1] >= 0 /\ id[1] <= 65535)

\* C19: for ids absent or in [0, 0xFFFF], encode emits the class, instance
\* and attribute segments in that order with bases 0x20, 0x24, 0x30, two
\* bytes below 256 and four bytes from 256 on
C19_EpathEncoding ==
    (/\ op = "encode"
     /\ InRange(args.class_id) /\ InRange(args.instance_id) /\ InRange(args.attribute_id))
        => /\ exc = "none"
           /\ ret = Segment(32, args.class_id) \o Segment(36, args.instance_id)
                        \o Segment(48, args.attribute_id)

C19_Witness ==
    /\ op = "encode"
    /\ args.class_id = None /\ args.instance_id = Some(300) /\ args.attribute_id = None
    /\ ret = << 37, 0, 44, 1 >>

\* The CIP request carried by the SendRRData frame f: the bytes after the
\* 16 bytes of interface handle, timeout, item count and the two item headers
CipRequestOf(f) == SliceFrom(f.data, 16)

\* req is [service][n][epath][data] with n * 2 = Len(epath), Len(epath) even
CipRequestForm(req, service, epath, data) ==
    /\ Len(epath) % 2 = 0
    /\ Len(req) = 2 + Len(epath) + Len(data)
    /\ req[1] = service
    /\ req[2] * 2 = Len(epath)
    /\ Slice(req, 2, 2 + req[2] * 2) = epath
    /\ SliceFrom(req, 2 + req[2] * 2) = data

\* C20: the CIP request of get_attribute_single and set_attribute_single is
\* [service][n][epath][data] with an EPATH of even length 2n (no pad byte),
\* service 0x0E and no data for get, 0x10 and the caller's data for set
C20_CipRequestForm ==
    CipCall =>
        /\ enip.wire # << >>
        /\ enip.wire[1].t = "W"
        /\ enip.wire[1].command = ENIP_CMD_SEND_RR_DATA
        /\ CipRequestForm(CipRequestOf(enip.wire[1]),
                          IF op = "get_attribute_single" THEN 14 ELSE 16,
                          Segment(32, Some(args.class_id))
                              \o Segment(36, Some(args.instance_id))
                              \o Segment(48, Some(args.attribute_id)),
                          IF op = "get_attribute_single" THEN << >> ELSE args.value)

C20_Witness ==
    /\ op = "set_attribute_single"
    /\ args.instance_id = 300
    /\ args.value = << 1, 0 >>
    /\ CipRequestOf(enip.wire[1]) = << 16, 4, 32, 4, 37, 0, 44, 1, 48, 3, 1, 0 >>

\* C23: parse_input_assembly fails (ValueError) exactly when the data has
\* fewer than 16 bytes; otherwise mass_flow, volume_flow, density and
\* temperature are decoded from bytes 0-3, 4-7, 8-11 and 12-15, and bytes
\* beyond the 16th are ignored
C23_ParseInputAssembly ==
    op = "parse_input_assembly" =>
        /\ exc # "none" <=> Len(args.data) < 16
        /\ exc # "none" => exc = "ValueError"
        /\ exc = "none" =>
              /\ ret.mass_flow = SubSeq(args.data, 1, 4)
              /\ ret.volume_flow = SubSeq(args.data, 5, 8)
              /\ ret.density = SubSeq(args.data, 9, 12)
              /\ ret.temperature = SubSeq(args.data, 13, 16)
              /\ DOMAIN ret = {"mass_flow", "volume_flow", "density", "temperature"}

C23_Witness ==
    /\ op = "parse_input_assembly"
    /\ exc = "none"
    /\ Len(args.data) = 17
    /\ ret.volume_flow = << 0, 0, 0, 64 >>

\* The frames written during the call whose wire log is w
Written(w) == { i \in DOMAIN w : w[i].t = "W" }

\* C24: reset_totalizer() writes exactly one frame, a SendRRData carrying the
\* SetAttributeSingle (0x10) request for class 4, instance 150, attribute 3
\* with data [0x01, 0x00]
C24_ResetTotalizerRequest ==
    op = "reset_totalizer" =>
        /\ Cardinality(Written(enip.wire)) = 1
        /\ \A i \in Written(enip.wire) :
              /\ enip.wire[i].command = ENIP_CMD_SEND_RR_DATA
              /\ CipRequestOf(enip.wire[i]) = << 16, 3, 32, 4, 36, 150, 48, 3, 1, 0 >>

C24_Witness ==
    /\ op = "reset_totalizer"
    /\ exc = "none"
    /\ args.x = GoodWrite
    /\ Cardinality(Written(enip.wire)) = 1

\* C27: an execute_logic that reads while the component is not connected
\* first runs the whole connect procedure; the read is issued only after an
\* attempt succeeded, and after the last attempt failed no SendRRData frame
\* is written and total_reads, successful_reads and failed_reads are as
\* before
C27_ReconnectPrecedesRead ==
    [][(op' = "execute_logic" /\ ~(self.connected /\ self.device)) =>
          /\ self.last_read_time = None => trace' # << >>
          /\ TraceShape(trace')
          /\ read' # "none" => (trace' # << >> /\ trace'[Len(trace')].t = "ok")
          /\ (trace' # << >> /\ trace'[Len(trace')].t = "fail") =>
                /\ read' = "none"
                /\ \A i \in Written(enip'.wire) :
                       enip'.wire[i].command # ENIP_CMD_SEND_RR_DATA
                /\ self'.total_reads = self.total_reads
                /\ self'.successful_reads = self.successful_reads
                /\ self'.failed_reads = self.failed_reads]_vars

C27_Witness ==
    /\ op = "execute_logic"
    /\ trace # << >>
    /\ trace[Len(trace)].t = "fail"
    /\ self.device_status = "CONNECTION_FAILED"
    /\ read = "none"
    /\ self.failed_reads = 0

\* The operation that ran last called _read_device_data: it ran the connect
\* loop or attempted the read
ReadIssued(tr, rd) == tr # << >> \/ rd # "none"

\* C28: execute_logic issues a device read exactly when no read has succeeded
\* yet or read_interval has elapsed since the last successful read; a read
\* that fails leaves the last-read time as it was, and every execute_logic
\* after a failed one issues the read again
C28_ReadScheduling ==
    [][op' = "execute_logic" =>
          /\ ReadIssued(trace', read')
                <=> (\/ self.last_read_time = None
                     \/ args'.now - self.last_read_time[1] >= read_interval)
          /\ read' # "ok" => self'.last_read_time = self.last_read_time
          /\ read' = "ok" => self'.last_read_time = Some(args'.now)
          /\ (ReadIssued(trace, read) /\ read # "ok") => ReadIssued(trace', read')]_vars

C28_Witness ==
    /\ op = "execute_logic"
    /\ self.last_read_time = Some(0)
    /\ args.now = 1
    /\ self.failed_reads = 2
    /\ ReadIssued(trace, read)
    /\ read # "ok"

\* C29: execute_logic clears the pending reset_totalizer input exactly when
\* it sent the reset command and the write returned without error; the input
\* stays pending when the component is disconnected or the write fails, and
\* a pending command is sent by every execute_logic that finds the component
\* connected
C29_ResetCommandHandling ==
    [][op' = "execute_logic" =>
          /\ self'.inputs.reset_totalizer
                = (self.inputs.reset_totalizer /\ write' # "ok")
          /\ ~self.inputs.reset_totalizer => write' = "none"
          /\ self.inputs.reset_totalizer =>
                (write' # "none" <=> (self'.connected /\ self'.device))
          /\ write' # "none" =>
                \E i \in Written(enip'.wire) :
                    /\ enip'.wire[i].command = ENIP_CMD_SEND_RR_DATA
                    /\ CipRequestOf(enip'.wire[i])[1] = SET_ATTRIBUTE_SINGLE]_vars

C29_Witness ==
    /\ op = "execute_logic"
    /\ write = "general_status"
    /\ self.inputs.reset_totalizer
    /\ self.connected

\* The kind of failure an exception site reports
FailureKind(w) ==
    IF w \in {"not_connected", "no_device"} THEN "not_connected"
    ELSE IF w \in TransportWhys THEN "transport"
    ELSE IF w = "general_status" THEN "rejected"
    ELSE IF w \in MalformedWhys \cup {"assembly_too_short"} THEN "malformed"
    ELSE "none"

\* C22: a failed device read is reported so that the caller can tell the
\* kinds of failure apart: a run of the same operation from the same state
\* whose read fails with another kind of failure ends with another
\* device_status (_read_device_data returns False in both)
C22_FailureKindsDistinguished ==
    [][(op' = "execute_logic" /\ FailureKind(read') # "none") =>
          \A r \in read_device_data(Entered(self, enip), 0) :
              FailureKind(r.s.read) \notin {"none", FailureKind(read')}
                  => r.s.self.device_status # self'.device_status]_vars

\* The process-value frame of the component
ProcessValues(this) == << this.mass_flow, this.volume_flow, this.density, this.temperature >>

\* The frame decoded from one input assembly
DecodedFrame(data) ==
    << parse_input_assembly(data).values.mass_flow,
       parse_input_assembly(data).values.volume_flow,
       parse_input_assembly(data).values.density,
       parse_input_assembly(data).values.temperature >>

\* The input assemblies the device answers a read with
AssembliesRead == { AssemblyA, AssemblyA \o << 9 >> }

\* C21: the process-value frame changes only in a call that completed a
\* successful device read (so a failed connect, a failed read, a totalizer
\* reset, a disconnect, a condition evaluation, initialize, start, stop and
\* set_input leave all four values as they were), and after a successful
\* read the four values are those decoded from one response
C21_ProcessValueFrame ==
    [][/\ ProcessValues(self') # ProcessValues(self) => (op' = "execute" /\ read' = "ok")
       /\ (op' = "execute" /\ read' = "ok") =>
              \E data \in AssembliesRead : ProcessValues(self') = DecodedFrame(data)]_vars

C21_Witness ==
    /\ op = "execute"
    /\ read = "ok"
    /\ ProcessValues(self) = DecodedFrame(AssemblyA \o << 9 >>)
    /\ self.prev_read_time # None

\* C25: once stop() has returned with status STOPPED, the device is
\* disconnected: no socket, session handle 0, no device object, not
\* connected, device_status DISCONNECTED
C25_StopDisconnects ==
    (op = "stop" /\ self.status = "stopped") => (Disconnected /\ enip.sock = None)

\* C26: a start() that succeeded has made a connection attempt
C26_StartConnects ==
    (op = "start" /\ ret = TRUE) => trace # << >>

\* C30: once the device accepts connections and answers every request
\* correctly, if execute_logic keeps being called then the component,
\* whatever failures it went through and whether or not it is connected,
\* comes to be connected with device_status CONNECTED after a successful read
C30_EventuallyReconnects ==
    []<>Calling =>
        ((Healed /\ args.now < LastTick) ~>
            (/\ Healed
             /\ op = "execute_logic"
             /\ read = "ok"
             /\ self.connected
             /\ self.device
             /\ self.device_status = "CONNECTED"))

C30_Witness ==
    /\ Healed
    /\ op = "execute_logic"
    /\ read = "ok"
    /\ trace # << >>
    /\ self.connected
    /\ self.device_status = "CONNECTED"
    /\ self.connection_error_count > 0
    /\ self.failed_reads > 0

\* C31: between any two component operations _connected is true if and only
\* if device_status is "CONNECTED", and _connected true implies that _device
\* is set and that its transport holds an open socket
C31_ConnectionBookkeeping ==
    /\ self.connected <=> self.device_status = "CONNECTED"
    /\ self.connected => (self.device /\ enip.sock # None)

C31_Witness ==
    /\ op = "execute_logic"
    /\ self.connected
    /\ self.device_status = "CONNECTED"
    /\ enip.sock # None
    /\ self.connection_error_count > 0
    /\ self.failed_reads > 0

\* The read counters of the component
ReadCounters(this) ==
    << this.total_reads, this.successful_reads, this.failed_reads, this.read_error_count >>

\* C32: after every operation total_reads = successful_reads and
\* failed_reads = read_error_count; a successful read adds 1 to total_reads
\* and successful_reads only, a failed read adds 1 to failed_reads and
\* read_error_count only, anything else leaves the four counters as they
\* were, and connection_error_count never decreases
C32_ReadStatistics ==
    [][/\ self'.total_reads = self'.successful_reads
       /\ self'.failed_reads = self'.read_error_count
       /\ self'.connection_error_count >= self.connection_error_count
       /\ ReadCounters(self') =
              IF op' = "execute_logic" /\ read' = "ok"
              THEN << self.total_reads + 1, self.successful_reads + 1,
                      self.failed_reads, self.read_error_count >>
              ELSE IF op' = "execute_logic" /\ read' # "none"
              THEN << self.total_reads, self.successful_reads,
                      self.failed_reads + 1, self.read_error_count + 1 >>
              ELSE ReadCounters(self)]_vars

C32_Witness ==
    /\ op = "execute_logic"
    /\ read \notin {"none", "ok"}
    /\ ReadCounters(self) = << 1, 1, 1, 1 >>

\* The four limited quantities: the field of the value, its limits and its
\* alarms
Limited ==
    { [value |-> "mass_flow", min |-> mass_flow_min, max |-> mass_flow_max,
       low |-> "mass_flow_low", high |-> "mass_flow_high"],
      [value |-> "volume_flow", min |-> volume_flow_min, max |-> volume_flow_max,
       low |-> "volume_flow_low", high |-> "volume_flow_high"],
      [value |-> "density", min |-> density_min, max |-> density_max,
       low |-> "density_low", high |-> "density_high"],
      [value |-> "temperature", min |-> temperature_min, max |-> temperature_max,
       low |-> "temperature_low", high |-> "temperature_high"] }

\* C33: after evaluate_conditions, for each limited quantity the low alarm
\* is set exactly when value < min and the high alarm exactly when
\* value >= min and value > max (comparisons on the numbers the floats
\* stand for, all false for a NaN), so never both; flow_valid is true
\* exactly when none of the eight is set; device_error is clear, and
\* rate_of_change_high is clear unless this evaluation compared with an
\* earlier reading; the values themselves are untouched
C33_LimitAlarms ==
    op = "evaluate_conditions" =>
        /\ \A q \in Limited :
               /\ ret.alarms[q.low] <=>
                      (~IsNaN(ret[q.value]) /\ WholeValue(ret[q.value]) < WholeValue(q.min))
               /\ ret.alarms[q.high] <=>
                      (/\ ~IsNaN(ret[q.value])
                       /\ WholeValue(ret[q.value]) >= WholeValue(q.min)
                       /\ WholeValue(ret[q.value]) > WholeValue(q.max))
               /\ ~(ret.alarms[q.low] /\ ret.alarms[q.high])
               /\ ret[q.value] = args.this[q.value]
        /\ ret.flow_valid <=> \A q \in Limited : ~ret.alarms[q.low] /\ ~ret.alarms[q.high]
        /\ ~ret.alarms.device_error
        /\ args.this.prev_read_time = None => ~ret.alarms.rate_of_change_high

C33_Witness ==
    /\ op = "evaluate_conditions"
    /\ args.this.alarms.device_error
    /\ args.this.alarms.mass_flow_low
    /\ ret.alarms.mass_flow_high
    /\ ret.alarms.temperature_low
    /\ ~ret.alarms.density_low
    /\ ~ret.flow_valid

\* C34: get_attribute_single / set_attribute_single with a class, instance
\* or attribute id outside [0, 0xFFFF] raises ValueError, writes nothing to
\* the socket and leaves the client (socket, session handle) as it was
C34_EpathRangeBeforeIO ==
    [][(AttributeCall /\ ~CipCall)' =>
          /\ exc' = "ValueError"
          /\ enip'.wire = << >>
          /\ enip' = Fresh(enip)
          /\ enip'.sock # None]_vars

C34_Witness ==
    /\ op = "set_attribute_single"
    /\ args.attribute_id = 65536
    /\ exc = "ValueError"
    /\ enip.session_handle # 0

\* The indices of the 0x00B2 items of the response, and the last of them
UnconnectedItems == { i \in DOMAIN args.items : args.items[i][1] = 178 }
LastUnconnected == CHOOSE i \in UnconnectedItems : \A j \in UnconnectedItems : j <= i

\* C35: when a zero-status SendRRData response holds several 0x00B2 items,
\* send_rr_data returns the payload of the last of them, whatever the
\* payloads are
C35_LastItemWins ==
    (op = "send_rr_data" /\ Cardinality(UnconnectedItems) >= 2) =>
        /\ exc = "none"
        /\ ret = args.items[LastUnconnected][2]

\* C36: however the peer's bytes are split over the recv() calls,
\* _recv_exact(n) ends; when the stream holds n bytes it returns exactly the
\* first n of them in order and leaves every later byte unread, which is the
\* outcome recv_exact computes in one step
C36_PartialReads ==
    /\ [](op = "_recv_exact" /\ why = "ok" =>
            /\ ret.buf = Slice(args.peer.stream, 0, args.n)
            /\ ret.rest.stream = SliceFrom(args.peer.stream, args.n)
            /\ [exc |-> exc, buf |-> ret.buf, rest |-> ret.rest]
                   = recv_exact(args.peer, args.n))
    /\ [](Receiving /\ Len(args.peer.stream) >= args.n => exc = "none")
    /\ (Receiving ~> (op = "_recv_exact" /\ why # "loop"))
    /\ ((Receiving /\ Len(args.peer.stream) >= args.n) ~> (why = "ok"))

C36_Witness ==
    /\ op = "_recv_exact" /\ why = "ok"
    /\ args.n = MaxRecv
    /\ Len(args.peer.stream) > args.n
    /\ Len(ret.rest.stream) = 1

\* The statuses the component goes through in the call `name` made on
\* `this`, the status before the call first
StatusPath(name, this) == << this.status >> \o status_changes(name, this)

\* C37: every status change made by initialize(), start(), stop() and
\* execute(), from any reachable status, is a transition of the
\* valid-transition table
C37_ValidTransitions ==
    [][op' \in {"initialize", "start", "stop", "execute"} =>
          /\ self'.status = StatusPath(op', self)[Len(StatusPath(op', self))]
          /\ \A i \in 1 .. Len(StatusPath(op', self)) - 1 :
                 validate_state_transition(StatusPath(op', self)[i],
                                           StatusPath(op', self)[i + 1])]_vars

\* C38: start() called in status INITIALIZED ends in RUNNING and returns
\* True (on a ProtocolComponent only when connect() returned True); called in
\* any other status it returns False and the component ends in ERROR
C38_StartOnlyFromInitialized ==
    op = "start" =>
        /\ args.status # "initialized" =>
               (ret.ret = FALSE /\ ret.self.status = "error")
        /\ (args.status = "initialized" /\ args.component = "LogicComponent") =>
               (ret.ret = TRUE /\ ret.self.status = "running")
        /\ (args.status = "initialized" /\ args.component = "ProtocolComponent") =>
               /\ ret.ret = TRUE <=> args.connect_async = "True"
               /\ ret.ret = TRUE => ret.self.status = "running"
               /\ ret.ret = FALSE => ret.self.status = "error"

C38_Witness ==
    /\ op = "start"
    /\ args.component = "LogicComponent"
    /\ args.status = "running"
    /\ ret.ret = FALSE
    /\ ret.self.status = "error"

\* C39: execute() on a component whose status is not RUNNING returns
\* success False and changes nothing: no field of the component (inputs,
\* alarms, process values, counters, status), no connect attempt, no read,
\* no write, nothing sent to the device
C39_ExecuteGatedOnRunning ==
    [][(op' = "execute" /\ self.status # "running") =>
          /\ ret' = FALSE
          /\ self' = self
          /\ enip' = Fresh(enip)
          /\ enip'.wire = << >>
          /\ trace' = << >>
          /\ read' = "none"
          /\ write' = "none"]_vars

C39_Witness ==
    /\ op = "execute"
    /\ ret = FALSE
    /\ self.status = "initialized"
    /\ self.inputs.reset_totalizer
    /\ ~self.connected
    /\ self.total_reads = 0

\* The calls of the wrapped method and the sleeps made so far, and whether
\* the wrapper has returned or raised
CallsMade == { i \in DOMAIN trace : trace[i].t = "call" }
SleepsMade == { i \in DOMAIN trace : trace[i].t = "sleep" }
WrapperDone == op = "retry_on_failure" /\ why \in {"returned", "raised"}

RECURSIVE Power(_, _)
Power(b, e) == IF e = 0 THEN 1 ELSE b * Power(b, e - 1)

\* C40: the wrapper of retry_on_failure calls the wrapped method at least
\* once and at most max_retries + 1 times; it returns the result of the
\* first call that succeeds and calls no more; an exception not listed is
\* raised at once; after max_retries + 1 listed failures the last exception
\* is raised; it sleeps only between two attempts, the i-th sleep lasting
\* delay * backoff_factor^(i-1); and it always ends
C40_RetryOnFailure ==
    /\ [](op = "retry_on_failure" =>
            /\ Cardinality(CallsMade) <= args.max_retries + 1
            /\ \A i \in DOMAIN trace :
                   /\ i % 2 = 1 <=> i \in CallsMade
                   /\ i \in SleepsMade =>
                          trace[i].d = args.delay * Power(args.backoff_factor, (i \div 2) - 1)
                   /\ (i \in CallsMade /\ trace[i].kind # "listed") =>
                          (i = Len(trace) /\ WrapperDone)
                   /\ (i \in CallsMade /\ i < Len(trace)) => i + 1 \in SleepsMade)
    /\ [](WrapperDone =>
            /\ Cardinality(CallsMade) >= 1
            /\ Len(trace) \in CallsMade
            /\ why = "returned" <=> trace[Len(trace)].kind = "returns"
            /\ why = "returned" => (exc = "none" /\ ret.value = Some(trace[Len(trace)].v))
            /\ why = "raised" => exc = trace[Len(trace)].v
            /\ trace[Len(trace)].kind = "listed" =>
                   Cardinality(CallsMade) = args.max_retries + 1)
    /\ [][WrapperDone => UNCHANGED vars]_vars
    /\ ((op = "retry_on_failure") ~> WrapperDone)

C40_Witness ==
    /\ WrapperDone
    /\ args.max_retries = 2 /\ args.delay = 1 /\ args.backoff_factor = 2
    /\ Cardinality(CallsMade) = 3
    /\ trace[4] = [t |-> "sleep", d |-> 2]
    /\ why = "raised" /\ exc = "TimeoutError"
    /\ trace[1].v = "ConnectionError"

====
